---- MODULE Spec2Model ----
(***************************************************************************)
(* Model of the GBA emulator drafts of this repository: the memory buses   *)
(* (Memory of flamesgbav2.py, the two MemoryManager drafts of 0.py, the    *)
(* first of which is also the MemoryManager of grok3gba.py) and the        *)
(* processor register files (ARM7TDMI of flamesgbav2.py, the stub          *)
(* ARM7TDMI of 0.py, GBACPU of deepseekgbaemu.py).                         *)
(*                                                                         *)
(* Representation.  TLC integers are 32-bit signed, so a Python int that   *)
(* holds a value (a byte, halfword, word or a wider argument) is kept as   *)
(* its little-endian byte sequence without trailing zero bytes: << >> is   *)
(* 0, <<255>> is 0xFF, <<120, 86, 52, 18>> is 0x12345678.  Addresses are   *)
(* integers below 2^31.  A bytearray is kept sparsely: the cells that      *)
(* differ from zero.  A loaded image is [id, len]; ImgByte gives its bytes.*)
(* The boot and cartridge bytearrays are the loaded images, overlaid by    *)
(* the cells of mem written into them.                                     *)
(***************************************************************************)
EXTENDS Integers, Sequences, FiniteSets, TLC

VARIABLES
    bus,        \* which bus class this run constructs: "Memory", "MM", "RM"
    window,     \* the addresses this run accesses
    mem,        \* the read-write bytearrays: <<region, offset>> -> nonzero byte
    bios,       \* the boot bytearray: [len, imgs], imgs the images copied into
                \* it, oldest first
    rom,        \* gamepak_rom / rom: the loaded cartridge image
    lazy,       \* Memory: the attributes created on demand (sram, dummy_unmapped)
    ppu,        \* Memory.ppu is connected (not None)
    keypad,     \* Memory.keypad is connected (not None)
    key_state,  \* Keypad.key_state, 16 bits
    warnings,   \* MemoryManager.warnings: sequence of <<kind, where>>
    cpu,        \* which processor class this run constructs
    R,          \* ARM7TDMI.R / registers: index 0..15 -> value
    R_banked,   \* ARM7TDMI.R_banked: mode -> tuple of values
    CPSR,       \* status register, a 32-bit value
    pc,         \* the separate pc attribute of the stub processors
    last,       \* the call just made: operation, arguments, result, exception
    prev,       \* the operation of the call before it
    nops,       \* number of calls made so far
    current_scanline,  \* PPU.current_scanline
    cycles_scanline,   \* PPU.cycles_scanline
    frame_buffer,      \* PPU.frame_buffer at the pixels of FbProbe: <<r8, g8, b8>>
    keys,       \* flamesgbav0.py GBAEmulator.keys: the keys whose entry is 1
    adds,       \* number of steps whose fetch address held the increment
    since,      \* scanlines advanced since 0x7FFF was written at video RAM
                \* offset 0, without a reset in between; -1 otherwise
    rendered,   \* [now, before]: the scanline the last call of PPU.step
                \* rendered and the one rendered most recently before it;
                \* -1 for none
    fb_len,     \* len(PPU.frame_buffer)
    cpu_cycles, \* ARM7TDMI.cycles of flamesgbav2.py
    executed_cycles_total, \* the local of GBAEmulator.emulation_loop
    memory_len  \* len(cpu.memory) of flamesgbav0.py and deepseekgbaemu.py

vars == <<bus, window, mem, bios, rom, lazy, ppu, keypad, key_state, warnings,
          cpu, R, R_banked, CPSR, pc, last, prev, nops,
          current_scanline, cycles_scanline, frame_buffer, keys, adds, since,
          rendered, fb_len, cpu_cycles, executed_cycles_total, memory_len>>

busVars == <<bus, window, mem, bios, rom, lazy, ppu, keypad, key_state, warnings>>
cpuVars == <<cpu, R, R_banked, CPSR, pc>>
ppuVars == <<current_scanline, cycles_scanline, frame_buffer>>
obsVars == <<rendered, fb_len, cpu_cycles>>
ioVars == <<ppuVars, keys, adds, since, obsVars, executed_cycles_total, memory_len>>

(***************************************************************************)
(* Bounds of the model.                                                    *)
(***************************************************************************)
MaxOps == 2
MaxCpuOps == 3

(***************************************************************************)
(* Memory map constants.                                                   *)
(***************************************************************************)
BIOS_START == 0
BIOS_SIZE == 16384
EWRAM_START == 33554432
EWRAM_SIZE == 262144
IWRAM_START == 50331648
IWRAM_SIZE == 32768
IO_REG_START == 67108864
IO_REG_SIZE == 1024
PALETTE_RAM_START == 83886080
PALETTE_RAM_SIZE == 1024
VRAM_START == 100663296
VRAM_SIZE == 98304
OAM_START == 117440512
OAM_SIZE == 1024
GAMEPAK_ROM_START == 134217728
SRAM_START == 234881024
SRAM_SIZE == 65536
MIRROR_SPAN == 16777215
KEYINPUT_ADDR == 67109168
DUMMY_SIZE == 4
PPU_REG_LAST == 95
SCREEN_WIDTH == 240
SCREEN_HEIGHT == 160

(***************************************************************************)
(* Python ints as little-endian byte sequences.                            *)
(***************************************************************************)
Min(a, b) == IF a <= b THEN a ELSE b

RECURSIVE Canon(_)
Canon(s) ==
    IF s = << >> THEN << >>
    ELSE IF s[Len(s)] = 0 THEN Canon(SubSeq(s, 1, Len(s) - 1))
    ELSE s

RECURSIVE IntVal(_)
IntVal(n) == IF n = 0 THEN << >> ELSE <<n % 256>> \o IntVal(n \div 256)

ByteOf(v, i) == IF i <= Len(v) THEN v[i] ELSE 0

\* v & (2^(8w) - 1)
MaskBytes(v, w) == Canon(SubSeq(v, 1, Min(w, Len(v))))

\* b0 | (b1 << 8) | ... for a tuple of byte values
FromBytes(bs) == Canon(bs)

\* v fits in w bytes, i.e. 0 <= v < 2^(8w)
Fits(v, w) == Len(v) <= w

\* addr & ~(n - 1) for n a power of two
AlignDown(addr, n) == addr - (addr % n)

(***************************************************************************)
(* Images handed to load_bios / load_rom.                                  *)
(***************************************************************************)
\* dummy_bios of flamesgbav2.py: [0x00, 0x00, 0xA0, 0xE1] * (BIOS_SIZE // 4)
NopByte(i) == <<0, 0, 160, 225>>[(i % 4) + 1]

\* test_rom of grok3gba.py: MOV R0,#0; ADD R0,R0,#1; B loop; then zero padding
TestRomByte(i) ==
    IF i < 12 THEN <<0, 0, 160, 227, 1, 0, 128, 226, 252, 255, 255, 234>>[i + 1]
    ELSE 0

ImgByte(img, i) ==
    CASE img.id = "nop"  -> NopByte(i)
      [] img.id = "test" -> TestRomByte(i)
      [] img.id = "ramp" -> (i % 251) + 1
      [] OTHER           -> 0

EmptyImage == [id |-> "zero", len |-> 0]

(***************************************************************************)
(* Byte storage shared by the three buses.                                 *)
(***************************************************************************)
RECURSIVE BiosByteIn(_, _)
BiosByteIn(stack, off) ==
    IF stack = << >> THEN 0
    ELSE LET top == stack[Len(stack)]
         IN  IF off < top.len THEN ImgByte(top, off)
             ELSE BiosByteIn(SubSeq(stack, 1, Len(stack) - 1), off)

\* len(region) of a bytearray attribute
RegionLen(region) ==
    CASE region = "bios"    -> bios.len
      [] region = "ewram"   -> EWRAM_SIZE
      [] region = "iwram"   -> IWRAM_SIZE
      [] region = "io_regs" -> IO_REG_SIZE
      [] region = "palette" -> PALETTE_RAM_SIZE
      [] region = "vram"    -> VRAM_SIZE
      [] region = "oam"     -> OAM_SIZE
      [] region = "rom"     -> rom.len
      [] region = "sram"    -> SRAM_SIZE
      [] region = "dummy_unmapped" -> DUMMY_SIZE
      [] OTHER              -> 0

\* region[offset], for 0 <= offset < len(region)
Cell(m, region, offset) ==
    IF <<region, offset>> \in DOMAIN m THEN m[<<region, offset>>]
    ELSE CASE region = "bios" -> BiosByteIn(bios.imgs, offset)
           [] region = "rom"  -> ImgByte(rom, offset)
           [] OTHER -> 0

\* region[offset] = byte
Put(m, region, offset, byte) ==
    LET c == <<region, offset>>
    IN  IF byte = 0 /\ region \notin {"bios", "rom"}
        THEN [x \in (DOMAIN m) \ {c} |-> m[x]]
        ELSE [x \in (DOMAIN m) \cup {c} |-> IF x = c THEN byte ELSE m[x]]

\* the part of the bus a read or write may change
BusNow == [mem |-> mem, warnings |-> warnings, lazy |-> lazy]

Warn(b, kind, where) == [b EXCEPT !.warnings = Append(@, <<kind, where>>)]

(***************************************************************************)
(* flamesgbav2.py: class Memory, and the PPU register writers it calls.    *)
(***************************************************************************)
Memory_get_memory_region_and_offset(addr) ==
    IF addr < BIOS_START + BIOS_SIZE
    THEN [region |-> "bios", offset |-> addr]
    ELSE IF EWRAM_START <= addr /\ addr < EWRAM_START + MIRROR_SPAN
    THEN [region |-> "ewram", offset |-> (addr - EWRAM_START) % EWRAM_SIZE]
    ELSE IF IWRAM_START <= addr /\ addr < IWRAM_START + MIRROR_SPAN
    THEN [region |-> "iwram", offset |-> (addr - IWRAM_START) % IWRAM_SIZE]
    ELSE IF IO_REG_START <= addr /\ addr < IO_REG_START + MIRROR_SPAN
    THEN [region |-> "io_regs", offset |-> (addr - IO_REG_START) % IO_REG_SIZE]
    ELSE IF PALETTE_RAM_START <= addr /\ addr < PALETTE_RAM_START + MIRROR_SPAN
    THEN [region |-> "palette", offset |-> (addr - PALETTE_RAM_START) % PALETTE_RAM_SIZE]
    ELSE IF VRAM_START <= addr /\ addr < VRAM_START + MIRROR_SPAN
    THEN [region |-> "vram", offset |-> (addr - VRAM_START) % VRAM_SIZE]
    ELSE IF OAM_START <= addr /\ addr < OAM_START + MIRROR_SPAN
    THEN [region |-> "oam", offset |-> (addr - OAM_START) % OAM_SIZE]
    ELSE IF GAMEPAK_ROM_START <= addr /\ addr < GAMEPAK_ROM_START + rom.len
    THEN [region |-> "rom", offset |-> addr - GAMEPAK_ROM_START]
    ELSE IF SRAM_START <= addr /\ addr < SRAM_START + SRAM_SIZE
    THEN [region |-> "sram", offset |-> addr - SRAM_START]
    ELSE [region |-> "dummy_unmapped", offset |-> 0]

\* the hasattr(...) branches of the lookup: sram and dummy_unmapped are
\* created (zero-filled) by the first lookup that needs them
Memory_lookup_creates(lz, addr) ==
    LET r == Memory_get_memory_region_and_offset(addr).region
    IN  IF r \in {"sram", "dummy_unmapped"} THEN lz \cup {r} ELSE lz

Memory_lookup(b, addr) == [b EXCEPT !.lazy = Memory_lookup_creates(@, addr)]

PPU_is_ppu_register(addr) ==
    LET offset == addr - IO_REG_START
    IN  0 <= offset /\ offset <= PPU_REG_LAST

PPU_write_register_byte(m, addr, value) ==
    Put(m, "io_regs", addr - IO_REG_START, ByteOf(value, 1))

PPU_write_register_halfword(m, addr, value) ==
    LET offset == addr - IO_REG_START
    IN  Put(Put(m, "io_regs", offset, ByteOf(value, 1)),
            "io_regs", offset + 1, ByteOf(value, 2))

PPU_write_register_word(m, addr, value) ==
    PPU_write_register_halfword(
        PPU_write_register_halfword(m, addr, MaskBytes(value, 2)),
        addr + 2, <<ByteOf(value, 3), ByteOf(value, 4)>>)

Keypad_get_keyinput_reg == IntVal(key_state)

\* each reader returns [val, bus]: the value returned and the bus afterwards
Memory_read_byte(b, addr) ==
    LET ro == Memory_get_memory_region_and_offset(addr)
        b1 == Memory_lookup(b, addr)
        val == IF ro.region = "io_regs" /\ addr = KEYINPUT_ADDR
               THEN (IF keypad THEN Keypad_get_keyinput_reg ELSE <<255>>)
               ELSE IF ro.offset >= RegionLen(ro.region) THEN <<255>>
               ELSE IntVal(Cell(b.mem, ro.region, ro.offset))
    IN  [val |-> val, bus |-> b1]

Memory_read_halfword(b, addr0) ==
    LET addr == IF addr0 % 2 # 0 THEN AlignDown(addr0, 2) ELSE addr0
        ro == Memory_get_memory_region_and_offset(addr)
        b1 == Memory_lookup(b, addr)
        val == IF ro.offset + 1 >= RegionLen(ro.region) THEN <<255, 255>>
               ELSE FromBytes(<<Cell(b.mem, ro.region, ro.offset),
                                Cell(b.mem, ro.region, ro.offset + 1)>>)
    IN  [val |-> val, bus |-> b1]

Memory_read_word(b, addr0) ==
    LET addr == IF addr0 % 4 # 0 THEN AlignDown(addr0, 4) ELSE addr0
        ro == Memory_get_memory_region_and_offset(addr)
        b1 == Memory_lookup(b, addr)
        val == IF ro.offset + 3 >= RegionLen(ro.region) THEN <<255, 255, 255, 255>>
               ELSE FromBytes(<<Cell(b.mem, ro.region, ro.offset),
                                Cell(b.mem, ro.region, ro.offset + 1),
                                Cell(b.mem, ro.region, ro.offset + 2),
                                Cell(b.mem, ro.region, ro.offset + 3)>>)
    IN  [val |-> val, bus |-> b1]

\* each writer returns the bus afterwards
Memory_write_byte(b, addr, val0) ==
    LET val == MaskBytes(val0, 1)
        ro == Memory_get_memory_region_and_offset(addr)
        b1 == Memory_lookup(b, addr)
        m1 == IF ro.region = "io_regs" /\ ppu /\ PPU_is_ppu_register(addr)
              THEN PPU_write_register_byte(b1.mem, addr, val)
              ELSE b1.mem
    IN  IF ro.region \in {"bios", "rom"} THEN b1
        ELSE IF ro.offset >= RegionLen(ro.region) THEN [b1 EXCEPT !.mem = m1]
        ELSE [b1 EXCEPT !.mem = Put(m1, ro.region, ro.offset, ByteOf(val, 1))]

Memory_write_halfword(b, addr0, val0) ==
    LET val == MaskBytes(val0, 2)
        addr == IF addr0 % 2 # 0 THEN AlignDown(addr0, 2) ELSE addr0
        ro == Memory_get_memory_region_and_offset(addr)
        b1 == Memory_lookup(b, addr)
        m1 == IF ro.region = "io_regs" /\ ppu /\ PPU_is_ppu_register(addr)
              THEN PPU_write_register_halfword(b1.mem, addr, val)
              ELSE b1.mem
    IN  IF ro.region \in {"bios", "rom"} THEN b1
        ELSE IF ro.offset + 1 >= RegionLen(ro.region) THEN [b1 EXCEPT !.mem = m1]
        ELSE [b1 EXCEPT !.mem =
                 Put(Put(m1, ro.region, ro.offset, ByteOf(val, 1)),
                     ro.region, ro.offset + 1, ByteOf(val, 2))]

Memory_write_word(b, addr0, val0) ==
    LET val == MaskBytes(val0, 4)
        addr == IF addr0 % 4 # 0 THEN AlignDown(addr0, 4) ELSE addr0
        ro == Memory_get_memory_region_and_offset(addr)
        b1 == Memory_lookup(b, addr)
        m1 == IF ro.region = "io_regs" /\ ppu /\ PPU_is_ppu_register(addr)
              THEN PPU_write_register_word(b1.mem, addr, val)
              ELSE b1.mem
    IN  IF ro.region \in {"bios", "rom"} THEN b1
        ELSE IF ro.offset + 3 >= RegionLen(ro.region) THEN [b1 EXCEPT !.mem = m1]
        ELSE [b1 EXCEPT !.mem =
                 Put(Put(Put(Put(m1, ro.region, ro.offset, ByteOf(val, 1)),
                             ro.region, ro.offset + 1, ByteOf(val, 2)),
                         ro.region, ro.offset + 2, ByteOf(val, 3)),
                     ro.region, ro.offset + 3, ByteOf(val, 4))]

(***************************************************************************)
(* 0.py lines 73-199 (the same class is grok3gba.py lines 74-200):         *)
(* MemoryManager with byte, halfword and word accessors.                   *)
(***************************************************************************)
\* a map_address whose cartridge window is the whole 32 MiB bank whatever the
\* length of the loaded cartridge; C2_LookupTotalDeterministic tells it from
\* MM_map_address
MM_map_address_fixed_rom_window(addr) ==
    IF 0 <= addr /\ addr < 16384 THEN [region |-> "bios", offset |-> addr]
    ELSE IF 33554432 <= addr /\ addr < 33816576
    THEN [region |-> "ewram", offset |-> addr - 33554432]
    ELSE IF 50331648 <= addr /\ addr < 50364416
    THEN [region |-> "iwram", offset |-> addr - 50331648]
    ELSE IF 67108864 <= addr /\ addr < 67109888
    THEN [region |-> "io_regs", offset |-> addr - 67108864]
    ELSE IF 83886080 <= addr /\ addr < 83887104
    THEN [region |-> "palette", offset |-> addr - 83886080]
    ELSE IF 100663296 <= addr /\ addr < 100761600
    THEN [region |-> "vram", offset |-> addr - 100663296]
    ELSE IF 117440512 <= addr /\ addr < 117441536
    THEN [region |-> "oam", offset |-> addr - 117440512]
    ELSE IF 134217728 <= addr /\ addr < 167772160
    THEN [region |-> "rom", offset |-> addr - 134217728]
    ELSE IF 234881024 <= addr /\ addr < 234946560
    THEN [region |-> "sram", offset |-> addr - 234881024]
    ELSE [region |-> "invalid", offset |-> 0]

MM_map_address(addr) ==
    IF 0 <= addr /\ addr < 16384 THEN [region |-> "bios", offset |-> addr]
    ELSE IF 33554432 <= addr /\ addr < 33816576
    THEN [region |-> "ewram", offset |-> addr - 33554432]
    ELSE IF 50331648 <= addr /\ addr < 50364416
    THEN [region |-> "iwram", offset |-> addr - 50331648]
    ELSE IF 67108864 <= addr /\ addr < 67109888
    THEN [region |-> "io_regs", offset |-> addr - 67108864]
    ELSE IF 83886080 <= addr /\ addr < 83887104
    THEN [region |-> "palette", offset |-> addr - 83886080]
    ELSE IF 100663296 <= addr /\ addr < 100761600
    THEN [region |-> "vram", offset |-> addr - 100663296]
    ELSE IF 117440512 <= addr /\ addr < 117441536
    THEN [region |-> "oam", offset |-> addr - 117440512]
    ELSE IF 134217728 <= addr /\ addr < 134217728 + rom.len
    THEN [region |-> "rom", offset |-> addr - 134217728]
    ELSE IF 234881024 <= addr /\ addr < 234946560
    THEN [region |-> "sram", offset |-> addr - 234881024]
    ELSE [region |-> "invalid", offset |-> 0]

\* the warnings.append of the else branch of map_address
MM_map_warns(b, addr) ==
    IF MM_map_address(addr).region = "invalid"
    THEN Warn(b, "Unmapped memory access", addr)
    ELSE b

MM_read_byte(b, addr) ==
    LET ro == MM_map_address(addr)
        b1 == MM_map_warns(b, addr)
    IN  IF ro.region = "invalid"
        THEN [val |-> IntVal((addr \div 16777216) % 256), bus |-> b1]
        ELSE IF ro.offset < RegionLen(ro.region)
        THEN [val |-> IntVal(Cell(b.mem, ro.region, ro.offset)), bus |-> b1]
        ELSE [val |-> << >>,
              bus |-> Warn(b1, "Out of bounds read", ro.offset)]

MM_read_halfword(b, addr0) ==
    LET b0 == IF addr0 % 2 # 0 THEN Warn(b, "Unaligned halfword read", addr0) ELSE b
        addr == IF addr0 % 2 # 0 THEN AlignDown(addr0, 2) ELSE addr0
        lo == MM_read_byte(b0, addr)
        hi == MM_read_byte(lo.bus, addr + 1)
    IN  [val |-> FromBytes(<<ByteOf(lo.val, 1), ByteOf(hi.val, 1)>>), bus |-> hi.bus]

\* ((val >> rot) | (val << (32 - rot))) & 0xFFFFFFFF for rot in {8, 16, 24}:
\* byte i of the result is byte (i + rot/8) mod 4 of val
RotateRight32(val, rot) ==
    FromBytes([i \in 1..4 |-> ByteOf(val, ((i - 1 + rot \div 8) % 4) + 1)])

MM_read_word(b, addr) ==
    LET b0 == IF addr % 4 # 0 THEN Warn(b, "Unaligned word read", addr) ELSE b
        base == IF addr % 4 # 0 THEN AlignDown(addr, 4) ELSE addr
        r0 == MM_read_byte(b0, base)
        r1 == MM_read_byte(r0.bus, base + 1)
        r2 == MM_read_byte(r1.bus, base + 2)
        r3 == MM_read_byte(r2.bus, base + 3)
        val == FromBytes(<<ByteOf(r0.val, 1), ByteOf(r1.val, 1),
                           ByteOf(r2.val, 1), ByteOf(r3.val, 1)>>)
    IN  IF addr % 4 # 0
        THEN [val |-> RotateRight32(val, (addr % 4) * 8), bus |-> r3.bus]
        ELSE [val |-> val, bus |-> r3.bus]

MM_write_byte(b, addr, value0) ==
    LET value == MaskBytes(value0, 1)
        ro == MM_map_address(addr)
        b1 == MM_map_warns(b, addr)
    IN  IF ro.region = "invalid" THEN Warn(b1, "Write to invalid address", addr)
        ELSE IF ro.region = "rom" THEN Warn(b1, "Attempt to write to ROM", addr)
        ELSE IF ro.region = "bios" THEN Warn(b1, "Attempt to write to BIOS", addr)
        ELSE IF ro.offset < RegionLen(ro.region)
        THEN [b1 EXCEPT !.mem = Put(@, ro.region, ro.offset, ByteOf(value, 1))]
        ELSE Warn(b1, "Out of bounds write", ro.offset)

\* a halfword write that stores the high byte first; C1_RoundTrip tells it
\* from MM_write_halfword
MM_write_halfword_big_endian(b, addr0, value0) ==
    LET value == MaskBytes(value0, 2)
        b0 == IF addr0 % 2 # 0 THEN Warn(b, "Unaligned halfword write", addr0) ELSE b
        addr == IF addr0 % 2 # 0 THEN AlignDown(addr0, 2) ELSE addr0
    IN  MM_write_byte(MM_write_byte(b0, addr, <<ByteOf(value, 2)>>),
                      addr + 1, <<ByteOf(value, 1)>>)

MM_write_halfword(b, addr0, value0) ==
    LET value == MaskBytes(value0, 2)
        b0 == IF addr0 % 2 # 0 THEN Warn(b, "Unaligned halfword write", addr0) ELSE b
        addr == IF addr0 % 2 # 0 THEN AlignDown(addr0, 2) ELSE addr0
    IN  MM_write_byte(MM_write_byte(b0, addr, <<ByteOf(value, 1)>>),
                      addr + 1, <<ByteOf(value, 2)>>)

MM_write_word(b, addr0, value0) ==
    LET value == MaskBytes(value0, 4)
        b0 == IF addr0 % 4 # 0 THEN Warn(b, "Unaligned word write", addr0) ELSE b
        addr == IF addr0 % 4 # 0 THEN AlignDown(addr0, 4) ELSE addr0
    IN  MM_write_byte(
            MM_write_byte(
                MM_write_byte(
                    MM_write_byte(b0, addr, <<ByteOf(value, 1)>>),
                    addr + 1, <<ByteOf(value, 2)>>),
                addr + 2, <<ByteOf(value, 3)>>),
            addr + 3, <<ByteOf(value, 4)>>)

(***************************************************************************)
(* 0.py lines 412-475: the second MemoryManager draft, REGION_MAP with     *)
(* sized read and write.                                                   *)
(***************************************************************************)
REGION_MAP ==
    << [start |-> 0,         end |-> 16384,     name |-> "bios"],
       [start |-> 33554432,  end |-> 33816576,  name |-> "ewram"],
       [start |-> 50331648,  end |-> 50364416,  name |-> "iwram"],
       [start |-> 67108864,  end |-> 67109888,  name |-> "io_regs"],
       [start |-> 83886080,  end |-> 83887104,  name |-> "palette"],
       [start |-> 100663296, end |-> 100761600, name |-> "vram"],
       [start |-> 117440512, end |-> 117441536, name |-> "oam"],
       [start |-> 134217728, end |-> 0,         name |-> "rom"],
       [start |-> 234881024, end |-> 234946560, name |-> "sram"] >>

\* the for loop of map_address from entry i on; "end or (start + len(rom))"
RECURSIVE RM_map_from(_, _)
RM_map_from(i, addr) ==
    IF i > Len(REGION_MAP) THEN [region |-> "invalid", offset |-> 0]
    ELSE LET e == REGION_MAP[i]
             end == IF e.end # 0 THEN e.end ELSE e.start + rom.len
         IN  IF e.start <= addr /\ addr < end
             THEN [region |-> e.name, offset |-> addr - e.start]
             ELSE RM_map_from(i + 1, addr)

RM_map_address(addr) == RM_map_from(1, addr)

RM_map_warns(b, addr) ==
    IF RM_map_address(addr).region = "invalid"
    THEN Warn(b, "Unmapped access", addr)
    ELSE b

\* int.from_bytes(mem[offset:offset+size], 'little')
RM_from_bytes(m, region, offset, size) ==
    FromBytes([i \in 1..size |-> Cell(m, region, offset + i - 1)])

RM_read(b, addr, size) ==
    LET ro == RM_map_address(addr)
        b1 == RM_map_warns(b, addr)
    IN  IF ro.region = "invalid" THEN [val |-> << >>, bus |-> b1]
        ELSE IF ro.offset + size <= RegionLen(ro.region)
        THEN [val |-> RM_from_bytes(b.mem, ro.region, ro.offset, size), bus |-> b1]
        ELSE [val |-> << >>, bus |-> Warn(b1, "Out of bounds read", ro.offset)]

\* mem[offset:offset+size] = the size bytes of value
RECURSIVE RM_store(_, _, _, _, _)
RM_store(m, region, offset, value, size) ==
    IF size = 0 THEN m
    ELSE Put(RM_store(m, region, offset, value, size - 1),
             region, offset + size - 1, ByteOf(value, size))

\* value.to_bytes(size, 'little') raises OverflowError unless 0 <= value < 2^(8 size)
RM_write_raises(addr, value, size) ==
    LET ro == RM_map_address(addr)
    IN  /\ ro.region \notin {"invalid", "rom", "bios"}
        /\ ro.offset + size <= RegionLen(ro.region)
        /\ ~Fits(value, size)

RM_write(b, addr, value, size) ==
    LET ro == RM_map_address(addr)
        b1 == RM_map_warns(b, addr)
    IN  IF ro.region \in {"invalid", "rom", "bios"}
        THEN Warn(b1, "Illegal write", addr)
        ELSE IF ro.offset + size <= RegionLen(ro.region)
        THEN (IF Fits(value, size)
              THEN [b1 EXCEPT !.mem = RM_store(@, ro.region, ro.offset, value, size)]
              ELSE b1)
        ELSE Warn(b1, "Out of bounds write", ro.offset)

(***************************************************************************)
(* load_bios and load_rom of the three buses.                              *)
(***************************************************************************)
\* self.bios[:k] = d, with d the first n bytes of img: the first min(k, len)
\* bytes are replaced by the n bytes of d, so the length becomes
\* len - min(k, len) + n, and the images that d covers entirely are gone
SliceAssign(bs, k, img, n) ==
    [len |-> bs.len - Min(k, bs.len) + n,
     imgs |-> SelectSeq(bs.imgs, LAMBDA x : x.len > n) \o <<[id |-> img.id, len |-> n]>>]

\* Memory.load_bios raises ValueError before touching anything if too large
Memory_load_bios_raises(data) == data.len > BIOS_SIZE

Memory_load_bios(bs, data) ==
    IF data.len > BIOS_SIZE THEN bs ELSE SliceAssign(bs, data.len, data, data.len)

\* a load_bios that rebinds the bytearray to the image (self.bios =
\* bytearray(data)), as load_rom does; C10_ShortBootImage tells it from
\* MM_load_bios
MM_load_bios_rebinds(b, bs, data) ==
    [bios |-> [len |-> data.len, imgs |-> <<data>>], bus |-> b]

\* returns [bios, bus]
MM_load_bios(b, bs, data) ==
    IF data.len <= bs.len
    THEN [bios |-> SliceAssign(bs, data.len, data, data.len), bus |-> b]
    ELSE [bios |-> SliceAssign(bs, bs.len, data, bs.len),
          bus |-> Warn(b, "BIOS data too large", data.len)]

RM_load_bios(b, bs, data) ==
    LET size == Min(data.len, bs.len)
    IN  [bios |-> SliceAssign(bs, size, data, size),
         bus |-> IF data.len > bs.len
                 THEN Warn(b, "BIOS truncated", bs.len)
                 ELSE b]

\* self.gamepak_rom = bytearray(data) / self.rom = bytearray(data)
\* a load_rom that copies into the cartridge bytearray it has and so never
\* shrinks it; C12_CartridgeExactlyData tells it from load_rom
load_rom_never_shrinks(data) ==
    [id |-> data.id, len |-> IF rom.len > data.len THEN rom.len ELSE data.len]

load_rom(data) == data

(***************************************************************************)
(* Inputs of the bus operations.                                           *)
(***************************************************************************)
\* A run probes one bank of the address space: an aligned address, misaligned
\* ones, the last bytes of the region, the first address past it; and in the
\* register bank the input register and a video register.
Windows ==
    { {0, 16383, 16384},                      \* boot region, 0x4000 is unmapped
      {16777216, 16777218, 268435459},        \* 0x01000000.. and 0x10000003: unmapped
      {33554432, 33554433, 33816575, 33816576},   \* ewram 0x02000000, last, past
      {50331648, 50364414, 50364416},         \* iwram 0x03000000, 0x03007FFE, past
      {67108868, 67109168, 67109169, 67109884},   \* DISPSTAT, KEYINPUT, +1, 0x040003FC
      {83886080, 83886083, 83887104},         \* palette 0x05000000, +3, past
      {100663296, 100761598, 100761600},      \* vram 0x06000000, 0x06017FFE, past
      {117440512, 117440514, 117441536},      \* oam 0x07000000, +2, past
      {134217728, 134217732, 134217739},      \* cartridge 0x08000000, +4, +11
      {234881024, 234946559, 234946560} }     \* save 0x0E000000, last, past

Addrs == UNION Windows

Widths == {1, 2, 4}

\* 0x5A and the 40-bit 0x01EFCDAB89
Values == { <<90>>, <<137, 171, 205, 239, 1>> }

BiosImages == { [id |-> "ramp", len |-> 8], [id |-> "nop", len |-> 16384],
                [id |-> "ramp", len |-> 16388] }

RomImages == { [id |-> "test", len |-> 12], [id |-> "ramp", len |-> 4] }

(***************************************************************************)
(* The bus operations as steps.                                            *)
(***************************************************************************)
Call(op, addr, width, val, ret, exc) ==
    [op |-> op, addr |-> addr, width |-> width, val |-> val, ret |-> ret, exc |-> exc]

\* a load_rom call; replaced is the cartridge image the call discards
LoadRomCall(data) ==
    [op |-> "load_rom", addr |-> 0, width |-> 0, val |-> data, ret |-> << >>,
     exc |-> "none", replaced |-> rom]

BusDone(b, call) ==
    /\ nops < MaxOps
    /\ nops' = nops + 1
    /\ mem' = b.mem
    /\ warnings' = b.warnings
    /\ lazy' = b.lazy
    /\ last' = call
    /\ prev' = last.op
    /\ UNCHANGED <<bus, window, ppu, keypad, key_state, cpuVars, ioVars>>

Memory_read_byte_step ==
    /\ bus = "Memory"
    /\ \E a \in window :
          LET r == Memory_read_byte(BusNow, a)
          IN  BusDone(r.bus, Call("read", a, 1, << >>, r.val, "none"))
    /\ UNCHANGED <<bios, rom>>

Memory_read_halfword_step ==
    /\ bus = "Memory"
    /\ \E a \in window :
          LET r == Memory_read_halfword(BusNow, a)
          IN  BusDone(r.bus, Call("read", a, 2, << >>, r.val, "none"))
    /\ UNCHANGED <<bios, rom>>

Memory_read_word_step ==
    /\ bus = "Memory"
    /\ \E a \in window :
          LET r == Memory_read_word(BusNow, a)
          IN  BusDone(r.bus, Call("read", a, 4, << >>, r.val, "none"))
    /\ UNCHANGED <<bios, rom>>

Memory_write_byte_step ==
    /\ bus = "Memory"
    /\ \E a \in window, v \in Values :
          BusDone(Memory_write_byte(BusNow, a, v), Call("write", a, 1, v, << >>, "none"))
    /\ UNCHANGED <<bios, rom>>

Memory_write_halfword_step ==
    /\ bus = "Memory"
    /\ \E a \in window, v \in Values :
          BusDone(Memory_write_halfword(BusNow, a, v), Call("write", a, 2, v, << >>, "none"))
    /\ UNCHANGED <<bios, rom>>

Memory_write_word_step ==
    /\ bus = "Memory"
    /\ \E a \in window, v \in Values :
          BusDone(Memory_write_word(BusNow, a, v), Call("write", a, 4, v, << >>, "none"))
    /\ UNCHANGED <<bios, rom>>

Memory_load_bios_step ==
    /\ bus = "Memory"
    /\ \E data \in BiosImages :
          /\ bios' = Memory_load_bios(bios, data)
          /\ BusDone(BusNow, Call("load_bios", 0, 0, data, << >>,
                        IF Memory_load_bios_raises(data) THEN "ValueError" ELSE "none"))
    /\ UNCHANGED rom

Memory_load_rom_step ==
    /\ bus = "Memory"
    /\ \E data \in RomImages :
          /\ rom' = load_rom(data)
          /\ BusDone(BusNow, LoadRomCall(data))
    /\ UNCHANGED bios

MM_read_byte_step ==
    /\ bus = "MM"
    /\ \E a \in window :
          LET r == MM_read_byte(BusNow, a)
          IN  BusDone(r.bus, Call("read", a, 1, << >>, r.val, "none"))
    /\ UNCHANGED <<bios, rom>>

MM_read_halfword_step ==
    /\ bus = "MM"
    /\ \E a \in window :
          LET r == MM_read_halfword(BusNow, a)
          IN  BusDone(r.bus, Call("read", a, 2, << >>, r.val, "none"))
    /\ UNCHANGED <<bios, rom>>

MM_read_word_step ==
    /\ bus = "MM"
    /\ \E a \in window :
          LET r == MM_read_word(BusNow, a)
          IN  BusDone(r.bus, Call("read", a, 4, << >>, r.val, "none"))
    /\ UNCHANGED <<bios, rom>>

MM_write_byte_step ==
    /\ bus = "MM"
    /\ \E a \in window, v \in Values :
          BusDone(MM_write_byte(BusNow, a, v), Call("write", a, 1, v, << >>, "none"))
    /\ UNCHANGED <<bios, rom>>

MM_write_halfword_step ==
    /\ bus = "MM"
    /\ \E a \in window, v \in Values :
          BusDone(MM_write_halfword(BusNow, a, v), Call("write", a, 2, v, << >>, "none"))
    /\ UNCHANGED <<bios, rom>>

MM_write_word_step ==
    /\ bus = "MM"
    /\ \E a \in window, v \in Values :
          BusDone(MM_write_word(BusNow, a, v), Call("write", a, 4, v, << >>, "none"))
    /\ UNCHANGED <<bios, rom>>

MM_load_bios_step ==
    /\ bus = "MM"
    /\ \E data \in BiosImages :
          LET r == MM_load_bios(BusNow, bios, data)
          IN  /\ bios' = r.bios
              /\ BusDone(r.bus, Call("load_bios", 0, 0, data, << >>, "none"))
    /\ UNCHANGED rom

MM_load_rom_step ==
    /\ bus = "MM"
    /\ \E data \in RomImages :
          /\ rom' = load_rom(data)
          /\ BusDone(BusNow, LoadRomCall(data))
    /\ UNCHANGED bios

RM_read_step ==
    /\ bus = "RM"
    /\ \E a \in window, size \in Widths :
          LET r == RM_read(BusNow, a, size)
          IN  BusDone(r.bus, Call("read", a, size, << >>, r.val, "none"))
    /\ UNCHANGED <<bios, rom>>

RM_write_step ==
    /\ bus = "RM"
    /\ \E a \in window, v \in Values, size \in Widths :
          BusDone(RM_write(BusNow, a, v, size),
                  Call("write", a, size, v, << >>,
                       IF RM_write_raises(a, v, size) THEN "OverflowError" ELSE "none"))
    /\ UNCHANGED <<bios, rom>>

RM_load_bios_step ==
    /\ bus = "RM"
    /\ \E data \in BiosImages :
          LET r == RM_load_bios(BusNow, bios, data)
          IN  /\ bios' = r.bios
              /\ BusDone(r.bus, Call("load_bios", 0, 0, data, << >>, "none"))
    /\ UNCHANGED rom

RM_load_rom_step ==
    /\ bus = "RM"
    /\ \E data \in RomImages :
          /\ rom' = load_rom(data)
          /\ BusDone(BusNow, LoadRomCall(data))
    /\ UNCHANGED bios

\* grok3gba.py GBAEmulatorApp.show_memory_warnings: the status line gets the
\* last warning only, then the list is replaced by an empty one
show_memory_warnings(ws) ==
    [delivered |-> IF ws # << >> THEN <<ws[Len(ws)]>> ELSE << >>,
     warnings |-> << >>]

show_memory_warnings_step ==
    /\ bus = "MM"
    /\ BusDone([BusNow EXCEPT !.warnings = show_memory_warnings(warnings).warnings],
               Call("show_memory_warnings", 0, 0, << >>,
                    show_memory_warnings(warnings).delivered, "none"))
    /\ UNCHANGED <<bios, rom>>

(***************************************************************************)
(* 32-bit values: bits and small sums on the byte sequences.               *)
(***************************************************************************)
RECURSIVE ToInt(_)
ToInt(v) == IF v = << >> THEN 0 ELSE v[1] + 256 * ToInt(Tail(v))

Pow2(k) == <<1, 2, 4, 8, 16, 32, 64, 128>>[k + 1]

\* (v >> k) & 1
GetBit(v, k) == (ByteOf(v, (k \div 8) + 1) \div Pow2(k % 8)) % 2

\* (v & ~(1 << k)) | (bit << k), for k < 32 and bit in {0, 1}
SetBit(v, k, bit) ==
    LET i == (k \div 8) + 1
        p == Pow2(k % 8)
        old == ByteOf(v, i)
        n == IF Len(v) > 4 THEN Len(v) ELSE 4
    IN  Canon([j \in 1..n |->
                 IF j = i THEN old - ((old \div p) % 2) * p + bit * p
                 ELSE ByteOf(v, j)])

\* v + n for a small n >= 0, no width limit (a Python int)
RECURSIVE AddSmall(_, _)
AddSmall(v, n) ==
    IF n = 0 THEN v
    ELSE IF v = << >> THEN IntVal(n)
    ELSE <<(v[1] + n) % 256>> \o AddSmall(Tail(v), (v[1] + n) \div 256)

(***************************************************************************)
(* flamesgbav2.py: class ARM7TDMI, register file and status register.      *)
(***************************************************************************)
MODE_USER == 16
MODE_FIQ == 17
MODE_IRQ == 18
MODE_SUPERVISOR == 19
MODE_ABORT == 23
MODE_UNDEFINED == 27
MODE_SYSTEM == 31

BankedModes == {MODE_FIQ, MODE_IRQ, MODE_SUPERVISOR, MODE_ABORT, MODE_UNDEFINED}
Modes == BankedModes \cup {MODE_USER, MODE_SYSTEM}

\* array.array('L', [0]*7) for FIQ, [0]*2 for the others
BankZero(mode) == IF mode = MODE_FIQ THEN [i \in 1..7 |-> << >>] ELSE [i \in 1..2 |-> << >>]

\* the processor fields an operation may change
CpuNow == [R |-> R, R_banked |-> R_banked, CPSR |-> CPSR]

\* self.CPSR & 0x1F
current_mode(c) == ByteOf(c.CPSR, 1) % 32

ARM7TDMI_get_reg(c, r_idx) ==
    LET mode == current_mode(c)
    IN  IF r_idx < 8 THEN c.R[r_idx]
        ELSE IF mode = MODE_FIQ /\ r_idx >= 8 /\ r_idx <= 14
        THEN c.R_banked[MODE_FIQ][r_idx - 8 + 1]
        ELSE IF r_idx = 13 /\ mode \in {MODE_IRQ, MODE_SUPERVISOR, MODE_ABORT, MODE_UNDEFINED}
        THEN c.R_banked[mode][1]
        ELSE IF r_idx = 14 /\ mode \in {MODE_IRQ, MODE_SUPERVISOR, MODE_ABORT, MODE_UNDEFINED}
        THEN c.R_banked[mode][2]
        ELSE c.R[r_idx]

\* a set_reg that keeps R13 and R14 of IRQ, Supervisor, Abort and Undefined
\* in one bank; C4_BankingLaw tells it from ARM7TDMI_set_reg
ARM7TDMI_set_reg_shared_bank(c, r_idx, val0) ==
    LET val == MaskBytes(val0, 4)
        mode == current_mode(c)
    IN  IF r_idx < 8 THEN [c EXCEPT !.R[r_idx] = val]
        ELSE IF mode = MODE_FIQ /\ r_idx >= 8 /\ r_idx <= 14
        THEN [c EXCEPT !.R_banked[MODE_FIQ][r_idx - 8 + 1] = val]
        ELSE IF r_idx = 13 /\ mode \in {MODE_IRQ, MODE_SUPERVISOR, MODE_ABORT, MODE_UNDEFINED}
        THEN [c EXCEPT !.R_banked = [m \in BankedModes |->
                 IF m = MODE_FIQ THEN @[m] ELSE [@[m] EXCEPT ![1] = val]]]
        ELSE IF r_idx = 14 /\ mode \in {MODE_IRQ, MODE_SUPERVISOR, MODE_ABORT, MODE_UNDEFINED}
        THEN [c EXCEPT !.R_banked = [m \in BankedModes |->
                 IF m = MODE_FIQ THEN @[m] ELSE [@[m] EXCEPT ![2] = val]]]
        ELSE [c EXCEPT !.R[r_idx] = val]

ARM7TDMI_set_reg(c, r_idx, val0) ==
    LET val == MaskBytes(val0, 4)
        mode == current_mode(c)
    IN  IF r_idx < 8 THEN [c EXCEPT !.R[r_idx] = val]
        ELSE IF mode = MODE_FIQ /\ r_idx >= 8 /\ r_idx <= 14
        THEN [c EXCEPT !.R_banked[MODE_FIQ][r_idx - 8 + 1] = val]
        ELSE IF r_idx = 13 /\ mode \in {MODE_IRQ, MODE_SUPERVISOR, MODE_ABORT, MODE_UNDEFINED}
        THEN [c EXCEPT !.R_banked[mode][1] = val]
        ELSE IF r_idx = 14 /\ mode \in {MODE_IRQ, MODE_SUPERVISOR, MODE_ABORT, MODE_UNDEFINED}
        THEN [c EXCEPT !.R_banked[mode][2] = val]
        ELSE [c EXCEPT !.R[r_idx] = val]

ARM7TDMI_get_pc(c) == c.R[15]

ARM7TDMI_set_pc(c, val) == [c EXCEPT !.R[15] = MaskBytes(val, 4)]

get_flag_N(c) == GetBit(c.CPSR, 31)
get_flag_Z(c) == GetBit(c.CPSR, 30)
get_flag_C(c) == GetBit(c.CPSR, 29)
get_flag_V(c) == GetBit(c.CPSR, 28)
get_flag_T(c) == GetBit(c.CPSR, 5)

set_flag_N(c, bit) == [c EXCEPT !.CPSR = SetBit(@, 31, bit)]
set_flag_Z(c, bit) == [c EXCEPT !.CPSR = SetBit(@, 30, bit)]
set_flag_C(c, bit) == [c EXCEPT !.CPSR = SetBit(@, 29, bit)]
set_flag_V(c, bit) == [c EXCEPT !.CPSR = SetBit(@, 28, bit)]

set_thumb_mode(c, active) ==
    [c EXCEPT !.CPSR = SetBit(@, 5, IF active THEN 1 ELSE 0)]

\* a reset that restarts at the link register it found, as the soft-reset
\* branch does; C5_ResetIdempotent tells it from ARM7TDMI_reset
ARM7TDMI_reset_pc_from_lr(c) ==
    LET c1 == [R |-> [i \in 0..15 |-> << >>],
               R_banked |-> [m \in BankedModes |-> BankZero(m)],
               CPSR |-> IntVal(MODE_SYSTEM + 192)]
        c2 == [c1 EXCEPT !.R[15] = ARM7TDMI_get_reg(c, 14)]
    IN  set_thumb_mode(c2, FALSE)

\* MODE_SYSTEM | 0xC0: the mode bits and the bits 6 and 7 do not overlap
ARM7TDMI_reset(c) ==
    LET c1 == [R |-> [i \in 0..15 |-> << >>],
               R_banked |-> [m \in BankedModes |-> BankZero(m)],
               CPSR |-> IntVal(MODE_SYSTEM + 192)]
        c2 == [c1 EXCEPT !.R[15] = IntVal(BIOS_START)]
    IN  set_thumb_mode(c2, FALSE)

(***************************************************************************)
(* flamesgbav2.py: class ARM7TDMI, fetch, decode and execute.              *)
(***************************************************************************)
\* the 32-bit literal 0xb3b2b1b0
Hex32(b3, b2, b1, b0) == Canon(<<b0, b1, b2, b3>>)

\* (a + b) & 0xFFFFFFFF for a, b below 2^32
Add32(a, b) ==
    LET s1 == ByteOf(a, 1) + ByteOf(b, 1)
        s2 == ByteOf(a, 2) + ByteOf(b, 2) + s1 \div 256
        s3 == ByteOf(a, 3) + ByteOf(b, 3) + s2 \div 256
        s4 == ByteOf(a, 4) + ByteOf(b, 4) + s3 \div 256
    IN  Canon(<<s1 % 256, s2 % 256, s3 % 256, s4 % 256>>)

\* (v >> lo) & (2^n - 1), for n <= 24
RECURSIVE Field(_, _, _)
Field(v, lo, n) == IF n = 0 THEN 0 ELSE GetBit(v, lo) + 2 * Field(v, lo + 1, n - 1)

\* (v & mask) == val
MaskEq(v, mask, val) ==
    \A k \in 0..31 :
        IF GetBit(mask, k) = 1 THEN GetBit(v, k) = GetBit(val, k)
        ELSE GetBit(val, k) = 0

\* the address a 32-bit value is on the bus; Memory resolves every address
\* from 0x0E010000 up to the same unmapped result, so an address of 2^31 or
\* more is looked up at 0x7F000000 plus its low 24 bits
BusAddr(v) ==
    IF ByteOf(v, 4) < 128 THEN ToInt(MaskBytes(v, 4))
    ELSE 2130706432 + ToInt(MaskBytes(v, 3))

\* a condition check that lets every instruction run, as check_cond of
\* flamesgbav0.py does; C26_FailedConditionSkips tells it from
\* ARM7TDMI_check_cond
ARM7TDMI_check_cond_always(c, cond) == TRUE

ARM7TDMI_check_cond(c, cond) ==
    CASE cond = 0  -> get_flag_Z(c) = 1
      [] cond = 1  -> get_flag_Z(c) = 0
      [] cond = 2  -> get_flag_C(c) = 1
      [] cond = 3  -> get_flag_C(c) = 0
      [] cond = 4  -> get_flag_N(c) = 1
      [] cond = 5  -> get_flag_N(c) = 0
      [] cond = 6  -> get_flag_V(c) = 1
      [] cond = 7  -> get_flag_V(c) = 0
      [] cond = 8  -> get_flag_C(c) = 1 /\ get_flag_Z(c) = 0
      [] cond = 9  -> get_flag_C(c) = 0 \/ get_flag_Z(c) = 1
      [] cond = 10 -> get_flag_N(c) = get_flag_V(c)
      [] cond = 11 -> get_flag_N(c) # get_flag_V(c)
      [] cond = 12 -> get_flag_Z(c) = 0 /\ get_flag_N(c) = get_flag_V(c)
      [] cond = 13 -> get_flag_Z(c) = 1 \/ get_flag_N(c) # get_flag_V(c)
      [] cond = 14 -> TRUE
      [] OTHER     -> FALSE

ARM7TDMI_arm_data_processing(c, opcode) ==
    IF opcode = Hex32(225, 160, 0, 0) THEN c
    ELSE IF /\ MaskEq(opcode, Hex32(15, 255, 15, 255), Hex32(1, 160, 0, 0))
            /\ Field(opcode, 12, 4) = 15
            /\ Field(opcode, 0, 4) = 14
    THEN ARM7TDMI_set_pc(c, ARM7TDMI_get_reg(c, 14))
    ELSE c

\* a load from any base register; C25_UnrecognizedIsNoOp tells it from
\* ARM7TDMI_arm_load_store
ARM7TDMI_arm_load_store_any_base(c, b, opcode) ==
    LET base_addr == ARM7TDMI_get_reg(c, Field(opcode, 16, 4))
        addr == BusAddr(MaskBytes(AddSmall(base_addr, Field(opcode, 0, 12)), 4))
        r == Memory_read_word(b, addr)
    IN  IF GetBit(opcode, 20) = 1
        THEN [cpu |-> ARM7TDMI_set_reg(c, Field(opcode, 12, 4), r.val), bus |-> r.bus]
        ELSE [cpu |-> c, bus |-> b]

\* a load/store that also carries out the store; C33_StepWritesNoMemory
\* tells it from ARM7TDMI_arm_load_store
ARM7TDMI_arm_load_store_stores(c, b, opcode) ==
    LET rn_idx == Field(opcode, 16, 4)
        rd_idx == Field(opcode, 12, 4)
        addr == BusAddr(MaskBytes(AddSmall(SetBit(ARM7TDMI_get_pc(c), 1, 0),
                                           Field(opcode, 0, 12)), 4))
        r == Memory_read_word(b, addr)
    IN  IF GetBit(opcode, 20) = 1 /\ rn_idx = 15
        THEN [cpu |-> ARM7TDMI_set_reg(c, rd_idx, r.val), bus |-> r.bus]
        ELSE IF GetBit(opcode, 20) = 0
        THEN [cpu |-> c,
              bus |-> Memory_write_word(b, BusAddr(ARM7TDMI_get_reg(c, rn_idx)),
                                        ARM7TDMI_get_reg(c, rd_idx))]
        ELSE [cpu |-> c, bus |-> b]

\* returns [cpu, bus]: LDR Rd, [PC, #imm] is the only form that does anything
ARM7TDMI_arm_load_store(c, b, opcode) ==
    LET is_ldr == GetBit(opcode, 20)
        is_byte == GetBit(opcode, 22)
        rn_idx == Field(opcode, 16, 4)
        rd_idx == Field(opcode, 12, 4)
        offset == Field(opcode, 0, 12)
        addr == BusAddr(MaskBytes(AddSmall(SetBit(ARM7TDMI_get_pc(c), 1, 0), offset), 4))
        r == IF is_byte = 1 THEN Memory_read_byte(b, addr) ELSE Memory_read_word(b, addr)
    IN  IF is_ldr = 1 /\ rn_idx = 15
        THEN [cpu |-> ARM7TDMI_set_reg(c, rd_idx, r.val), bus |-> r.bus]
        ELSE [cpu |-> c, bus |-> b]

ARM7TDMI_arm_branch(c, opcode) ==
    LET ext == IF ByteOf(opcode, 3) >= 128 THEN 255 ELSE 0
        offset == Canon(<<ByteOf(opcode, 1), ByteOf(opcode, 2), ByteOf(opcode, 3), ext>>)
        twice == Add32(offset, offset)
        current_pc == ARM7TDMI_get_pc(c)
        c1 == IF GetBit(opcode, 24) = 1
              THEN ARM7TDMI_set_reg(c, 14, Add32(current_pc, Hex32(255, 255, 255, 252)))
              ELSE c
    IN  ARM7TDMI_set_pc(c1, Add32(current_pc, Add32(twice, twice)))

ARM7TDMI_arm_bx_blx(c, opcode) ==
    LET target_addr == ARM7TDMI_get_reg(c, Field(opcode, 0, 4))
        c1 == IF MaskEq(opcode, Hex32(15, 255, 255, 240), Hex32(1, 47, 255, 48))
              THEN ARM7TDMI_set_reg(c, 14, Add32(ARM7TDMI_get_pc(c), Hex32(255, 255, 255, 252)))
              ELSE c
    IN  ARM7TDMI_set_pc(set_thumb_mode(c1, GetBit(target_addr, 0) = 1),
                        SetBit(target_addr, 0, 0))

\* a software interrupt that enters Supervisor mode, as the architecture
\* does; C34_StepKeepsModeAndFlags tells it from ARM7TDMI_arm_swi
ARM7TDMI_arm_swi_supervisor(c, opcode) ==
    ARM7TDMI_set_pc([c EXCEPT !.CPSR = Canon([@ EXCEPT ![1] = 192 + MODE_SUPERVISOR])],
                    IntVal(8))

ARM7TDMI_arm_swi(c, opcode) ==
    IF Field(opcode, 0, 24) \in {0, 1, 2}
    THEN ARM7TDMI_set_pc(c, ARM7TDMI_get_reg(c, 14))
    ELSE c

\* returns [cpu, bus]; arm_multiply, arm_swp, arm_load_store_multiple, MSR/MRS
\* and the coprocessor forms are placeholders that do nothing
ARM7TDMI_execute_arm(c, b, opcode) ==
    LET instr_type == Field(opcode, 25, 3)
        same == [cpu |-> c, bus |-> b]
    IN  IF ~ARM7TDMI_check_cond(c, Field(opcode, 28, 4)) THEN same
        ELSE IF instr_type \in {0, 1}
        THEN (IF MaskEq(opcode, Hex32(15, 192, 0, 240), Hex32(0, 0, 0, 144)) THEN same
              ELSE IF MaskEq(opcode, Hex32(15, 176, 15, 240), Hex32(1, 0, 0, 144)) THEN same
              ELSE IF MaskEq(opcode, Hex32(15, 191, 15, 255), Hex32(1, 47, 255, 16))
              THEN [cpu |-> ARM7TDMI_arm_bx_blx(c, opcode), bus |-> b]
              ELSE IF Field(opcode, 22, 6) = 8 /\ Field(opcode, 4, 4) = 0 THEN same
              ELSE [cpu |-> ARM7TDMI_arm_data_processing(c, opcode), bus |-> b])
        ELSE IF instr_type \in {2, 3} THEN ARM7TDMI_arm_load_store(c, b, opcode)
        ELSE IF instr_type = 4 THEN same
        ELSE IF instr_type = 5 THEN [cpu |-> ARM7TDMI_arm_branch(c, opcode), bus |-> b]
        ELSE IF instr_type = 6 THEN same
        ELSE IF Field(opcode, 24, 4) = 15
        THEN [cpu |-> ARM7TDMI_arm_swi(c, opcode), bus |-> b]
        ELSE same

\* opcode is a halfword, held as an integer; offset |= ~0xFF then <<= 1 is
\* the 32-bit value 0xFFFFFF00 | offset doubled, once set_pc has masked it
ARM7TDMI_execute_thumb(c, opcode) ==
    IF opcode \div 256 = 208
    THEN (IF ARM7TDMI_check_cond(c, (opcode \div 256) % 16)
          THEN LET o8 == opcode % 256
                   offset == IF o8 >= 128 THEN Hex32(255, 255, 255, o8) ELSE IntVal(o8)
               IN  ARM7TDMI_set_pc(c, Add32(ARM7TDMI_get_pc(c), Add32(offset, offset)))
          ELSE c)
    ELSE IF opcode \div 2048 = 28
    THEN LET o11 == opcode % 2048
             offset == IF o11 >= 1024
                       THEN Hex32(255, 255, 248 + o11 \div 256, o11 % 256)
                       ELSE IntVal(o11)
         IN  ARM7TDMI_set_pc(c, Add32(ARM7TDMI_get_pc(c), Add32(offset, offset)))
    ELSE IF opcode \div 256 = 71
    THEN LET target_addr == ARM7TDMI_get_reg(c, (opcode \div 8) % 16)
         IN  ARM7TDMI_set_pc(set_thumb_mode(c, GetBit(target_addr, 0) = 1),
                             SetBit(target_addr, 0, 0))
    ELSE c

\* returns [cpu, bus]; self.cycles, which only ever grows by one, is not kept
ARM7TDMI_step(c, b) ==
    LET pc0 == ARM7TDMI_get_pc(c)
    IN  IF get_flag_T(c) = 1
        THEN LET r == Memory_read_halfword(b, BusAddr(pc0))
             IN  [cpu |-> ARM7TDMI_execute_thumb(
                              ARM7TDMI_set_pc(c, Add32(pc0, IntVal(2))), ToInt(r.val)),
                  bus |-> r.bus]
        ELSE LET r == Memory_read_word(b, BusAddr(pc0))
             IN  ARM7TDMI_execute_arm(ARM7TDMI_set_pc(c, Add32(pc0, IntVal(4))),
                                      r.bus, r.val)

\* The mode field of CPSR has no writer among the instructions (MSR is a
\* placeholder): an exception entry is left to the caller, who assigns the
\* attribute.  (self.CPSR & ~0x1F) | mode
CPSR_enter_mode(c, mode) ==
    [c EXCEPT !.CPSR =
        Canon([j \in 1..(IF Len(@) > 4 THEN Len(@) ELSE 4) |->
                 IF j = 1 THEN ByteOf(@, 1) - (ByteOf(@, 1) % 32) + mode
                 ELSE ByteOf(@, j)])]

(***************************************************************************)
(* 0.py lines 19-65: the stub ARM7TDMI; deepseekgbaemu.py: GBACPU.         *)
(***************************************************************************)
\* returns [R, CPSR, pc]
Stub_reset ==
    [R |-> [i \in 0..15 |-> << >>],
     pc |-> IntVal(GAMEPAK_ROM_START),
     CPSR |-> IntVal(31)]

Stub_step(regs, p) ==
    LET p1 == AddSmall(p, 4)
    IN  [R |-> [regs EXCEPT ![0] = AddSmall(@, 1)],
         pc |-> IF ToInt(p1) >= GAMEPAK_ROM_START + 12
                THEN IntVal(GAMEPAK_ROM_START + 4) ELSE p1]

GBACPU_reset ==
    [R |-> [i \in 0..15 |-> << >>],
     CPSR |-> IntVal(31),
     pc |-> IntVal(134217728)]

(***************************************************************************)
(* The processor operations as steps.                                      *)
(***************************************************************************)
RegIdx == {0, 8, 13, 14, 15}

\* 1, 0xDEADBEEF and the 40-bit 0x01EFCDAB89
RegValues == { <<1>>, <<239, 190, 173, 222>>, <<137, 171, 205, 239, 1>> }

CpuDone(c, call) ==
    /\ nops < MaxCpuOps
    /\ nops' = nops + 1
    /\ R' = c.R
    /\ R_banked' = c.R_banked
    /\ CPSR' = c.CPSR
    /\ last' = call
    /\ prev' = last.op
    /\ UNCHANGED <<cpu, pc, busVars, ioVars>>

ARM7TDMI_reset_step ==
    /\ cpu = "ARM7TDMI"
    /\ CpuDone(ARM7TDMI_reset(CpuNow), Call("reset", 0, 0, << >>, << >>, "none"))

ARM7TDMI_set_reg_step ==
    /\ cpu = "ARM7TDMI"
    /\ \E r_idx \in RegIdx, val \in RegValues :
          CpuDone(ARM7TDMI_set_reg(CpuNow, r_idx, val),
                  Call("set_reg", r_idx, 0, val, << >>, "none"))

ARM7TDMI_set_pc_step ==
    /\ cpu = "ARM7TDMI"
    /\ \E val \in RegValues :
          CpuDone(ARM7TDMI_set_pc(CpuNow, val), Call("set_pc", 15, 0, val, << >>, "none"))

set_thumb_mode_step ==
    /\ cpu = "ARM7TDMI"
    /\ \E active \in BOOLEAN :
          CpuDone(set_thumb_mode(CpuNow, active),
                  Call("set_thumb_mode", 0, 0, << >>, << >>, "none"))

set_flag_N_step ==
    /\ cpu = "ARM7TDMI"
    /\ \E bit \in {0, 1} :
          CpuDone(set_flag_N(CpuNow, bit), Call("set_flag", 31, 0, IntVal(bit), << >>, "none"))

set_flag_Z_step ==
    /\ cpu = "ARM7TDMI"
    /\ \E bit \in {0, 1} :
          CpuDone(set_flag_Z(CpuNow, bit), Call("set_flag", 30, 0, IntVal(bit), << >>, "none"))

set_flag_C_step ==
    /\ cpu = "ARM7TDMI"
    /\ \E bit \in {0, 1} :
          CpuDone(set_flag_C(CpuNow, bit), Call("set_flag", 29, 0, IntVal(bit), << >>, "none"))

set_flag_V_step ==
    /\ cpu = "ARM7TDMI"
    /\ \E bit \in {0, 1} :
          CpuDone(set_flag_V(CpuNow, bit), Call("set_flag", 28, 0, IntVal(bit), << >>, "none"))

CPSR_enter_mode_step ==
    /\ cpu = "ARM7TDMI"
    /\ \E mode \in Modes :
          CpuDone(CPSR_enter_mode(CpuNow, mode),
                  Call("enter_mode", mode, 0, << >>, << >>, "none"))

Stub_reset_step ==
    /\ cpu = "Stub"
    /\ nops < MaxCpuOps
    /\ nops' = nops + 1
    /\ R' = Stub_reset.R
    /\ pc' = Stub_reset.pc
    /\ CPSR' = Stub_reset.CPSR
    /\ last' = Call("reset", 0, 0, << >>, << >>, "none")
    /\ prev' = last.op
    /\ UNCHANGED <<cpu, R_banked, busVars, ioVars>>

Stub_step_step ==
    /\ cpu = "Stub"
    /\ nops < MaxCpuOps
    /\ nops' = nops + 1
    /\ R' = Stub_step(R, pc).R
    /\ pc' = Stub_step(R, pc).pc
    /\ last' = Call("step", 0, 0, << >>, << >>, "none")
    /\ prev' = last.op
    /\ UNCHANGED <<cpu, CPSR, R_banked, busVars, ioVars>>

GBACPU_reset_step ==
    /\ cpu = "GBACPU"
    /\ nops < MaxCpuOps
    /\ nops' = nops + 1
    /\ R' = GBACPU_reset.R
    /\ pc' = GBACPU_reset.pc
    /\ CPSR' = GBACPU_reset.CPSR
    /\ last' = Call("reset", 0, 0, << >>, << >>, "none")
    /\ prev' = last.op
    /\ UNCHANGED <<cpu, R_banked, busVars, ioVars>>

(***************************************************************************)
(* Initial states and specifications.                                      *)
(***************************************************************************)
\* 0.py GBAEmulatorApp.reset / _reset: cpu.reset(), then the warnings are
\* discarded; the processor is gba_emu_enhanced's when the import succeeds
GBAEmulatorApp_reset_step ==
    /\ bus \in {"MM", "RM"}
    /\ cpu = "ARM7TDMI"
    /\ nops < MaxOps
    /\ nops' = nops + 1
    /\ R' = ARM7TDMI_reset(CpuNow).R
    /\ R_banked' = ARM7TDMI_reset(CpuNow).R_banked
    /\ CPSR' = ARM7TDMI_reset(CpuNow).CPSR
    /\ warnings' = << >>
    /\ last' = Call("app_reset", 0, 0, << >>, << >>, "none")
    /\ prev' = last.op
    /\ UNCHANGED <<bus, window, mem, bios, rom, lazy, ppu, keypad, key_state, cpu, pc, ioVars>>

NoCall == Call("init", 0, 0, << >>, << >>, "none")

\* flamesgbav0.py: self.memory = bytearray(0x1000000)
FLAT_SIZE == 16777216

\* the pixels of the frame buffer the model keeps: the first two of scanline
\* 0 and the first of scanline 1
FbProbe == {0, 1, 240}

\* PPU.__init__: the frame buffer is '#000000' everywhere, scanline and
\* accumulator are 0; GBAEmulator.__init__ of flamesgbav0.py: no key is down;
\* the flat memory of the drafts is a bytearray of 0x1000000 bytes
IoConstructed ==
    /\ current_scanline = 0
    /\ cycles_scanline = 0
    /\ frame_buffer = [i \in FbProbe |-> <<0, 0, 0>>]
    /\ keys = {}
    /\ adds = 0
    /\ since = -1
    /\ rendered = [now |-> -1, before |-> -1]
    /\ fb_len = SCREEN_WIDTH * SCREEN_HEIGHT
    /\ cpu_cycles = 0
    /\ executed_cycles_total = 0
    /\ memory_len = FLAT_SIZE

\* ARM7TDMI.__init__ ends with self.reset()
CpuConstructed == ARM7TDMI_reset([R |-> [i \in 0..15 |-> << >>],
                                  R_banked |-> [m \in BankedModes |-> BankZero(m)],
                                  CPSR |-> IntVal(MODE_SYSTEM)])

\* Memory() on its own, or inside GBAEmulator.__init__, where ARM7TDMI.__init__
\* loads the dummy boot image and the video unit and the keypad are connected;
\* MemoryManager() of either draft
Init ==
    /\ bus \in {"Memory", "MM", "RM"}
    /\ window \in Windows
    /\ ppu \in BOOLEAN
    /\ keypad = ppu
    /\ (bus # "Memory") => ~ppu
    /\ bios = [len |-> BIOS_SIZE,
               imgs |-> IF ppu THEN <<[id |-> "nop", len |-> BIOS_SIZE]>> ELSE << >>]
    /\ mem = << >>
    /\ rom = EmptyImage
    /\ lazy = {}
    /\ key_state = 65535
    /\ warnings = << >>
    /\ cpu = "ARM7TDMI"
    /\ R = CpuConstructed.R
    /\ R_banked = CpuConstructed.R_banked
    /\ CPSR = CpuConstructed.CPSR
    /\ pc = "absent"
    /\ last = NoCall
    /\ prev = "init"
    /\ nops = 0
    /\ IoConstructed

Next ==
    \/ Memory_read_byte_step
    \/ Memory_read_halfword_step
    \/ Memory_read_word_step
    \/ Memory_write_byte_step
    \/ Memory_write_halfword_step
    \/ Memory_write_word_step
    \/ Memory_load_bios_step
    \/ Memory_load_rom_step
    \/ MM_read_byte_step
    \/ MM_read_halfword_step
    \/ MM_read_word_step
    \/ MM_write_byte_step
    \/ MM_write_halfword_step
    \/ MM_write_word_step
    \/ MM_load_bios_step
    \/ MM_load_rom_step
    \/ RM_read_step
    \/ RM_write_step
    \/ RM_load_bios_step
    \/ RM_load_rom_step
    \/ show_memory_warnings_step
    \/ GBAEmulatorApp_reset_step

Spec == Init /\ [][Next]_vars

\* the three processor classes after construction
InitCpu ==
    /\ bus = "Memory"
    /\ window = {}
    /\ ppu = TRUE
    /\ keypad = TRUE
    /\ bios = [len |-> BIOS_SIZE, imgs |-> <<[id |-> "nop", len |-> BIOS_SIZE]>>]
    /\ mem = << >>
    /\ rom = EmptyImage
    /\ lazy = {}
    /\ key_state = 65535
    /\ warnings = << >>
    /\ cpu \in {"ARM7TDMI", "Stub", "GBACPU"}
    /\ R = [i \in 0..15 |-> << >>]
    /\ R_banked = [m \in BankedModes |-> BankZero(m)]
    /\ CPSR = CASE cpu = "ARM7TDMI" -> CpuConstructed.CPSR
                [] cpu = "Stub"     -> IntVal(31)
                [] OTHER            -> << >>
    /\ pc = IF cpu = "Stub" THEN IntVal(GAMEPAK_ROM_START) ELSE "absent"
    /\ last = NoCall
    /\ prev = "init"
    /\ nops = 0
    /\ IoConstructed

NextCpu ==
    \/ ARM7TDMI_reset_step
    \/ ARM7TDMI_set_reg_step
    \/ ARM7TDMI_set_pc_step
    \/ set_thumb_mode_step
    \/ set_flag_N_step
    \/ set_flag_Z_step
    \/ set_flag_C_step
    \/ set_flag_V_step
    \/ CPSR_enter_mode_step
    \/ Stub_reset_step
    \/ Stub_step_step
    \/ GBACPU_reset_step

SpecCpu == InitCpu /\ [][NextCpu]_vars

(***************************************************************************)
(* Scenario runs: a cartridge is loaded, the machine reset, the processor  *)
(* stepped.  flamesgbav2.py GBAEmulator with ARM7TDMI and Memory;          *)
(* grok3gba.py / 0.py GBAEmulatorApp with the stub ARM7TDMI and            *)
(* MemoryManager.                                                          *)
(***************************************************************************)
MaxSteps == 1000

\* ADD R0, R0, #1
INCREMENT == Hex32(226, 128, 0, 1)

\* flamesgbav2.py GBAEmulator.load_rom_dialog: memory.load_rom(rom_data),
\* then reset_emulator(): cpu.reset(), scanline and accumulator to 0, the
\* frame buffer to '#101010'
GBAEmulator_load_rom_dialog_step ==
    /\ cpu = "ARM7TDMI"
    /\ bus = "Memory"
    /\ rom = EmptyImage
    /\ \E data \in RomImages :
          /\ rom' = load_rom(data)
          /\ last' = LoadRomCall(data)
    /\ R' = ARM7TDMI_reset(CpuNow).R
    /\ R_banked' = ARM7TDMI_reset(CpuNow).R_banked
    /\ CPSR' = ARM7TDMI_reset(CpuNow).CPSR
    /\ current_scanline' = 0
    /\ cycles_scanline' = 0
    /\ frame_buffer' = [i \in FbProbe |-> <<16, 16, 16>>]
    /\ fb_len' = SCREEN_WIDTH * SCREEN_HEIGHT
    /\ prev' = last.op
    /\ UNCHANGED <<bus, window, mem, bios, lazy, ppu, keypad, key_state, warnings,
                   cpu, pc, nops, keys, adds, since, rendered, cpu_cycles,
                   executed_cycles_total, memory_len>>

\* grok3gba.py GBAEmulatorApp.load_rom: memory.load_rom(rom_data), then
\* reset(): cpu.reset() and the warnings are discarded
GBAEmulatorApp_load_rom_step ==
    /\ cpu = "Stub"
    /\ bus = "MM"
    /\ rom = EmptyImage
    /\ \E data \in RomImages :
          /\ rom' = load_rom(data)
          /\ last' = LoadRomCall(data)
    /\ R' = Stub_reset.R
    /\ pc' = Stub_reset.pc
    /\ CPSR' = Stub_reset.CPSR
    /\ warnings' = << >>
    /\ prev' = last.op
    /\ UNCHANGED <<bus, window, mem, bios, lazy, ppu, keypad, key_state,
                   cpu, R_banked, nops, ioVars>>

\* a cycle count that charges a wide instruction 2; C38_FrameLoopTerminates
\* tells it from ARM7TDMI_step_cycles
ARM7TDMI_step_cycles_by_width(before, thumb) == before + (IF thumb THEN 1 ELSE 2)

\* self.cycles += 1, in the narrow and in the wide branch of ARM7TDMI.step
ARM7TDMI_step_cycles(before, thumb) == before + 1

\* the word or halfword ARM7TDMI.step fetches, and its width in bytes
ARM7TDMI_fetch_width == IF get_flag_T(CpuNow) = 1 THEN 2 ELSE 4

ARM7TDMI_fetched ==
    IF get_flag_T(CpuNow) = 1
    THEN Memory_read_halfword(BusNow, BusAddr(R[15])).val
    ELSE Memory_read_word(BusNow, BusAddr(R[15])).val

\* ARM7TDMI.step() of flamesgbav2.py on the Memory bus: one call
ARM7TDMI_step_call ==
    /\ cpu = "ARM7TDMI"
    /\ bus = "Memory"
    /\ nops' = nops + 1
    /\ LET r == ARM7TDMI_step(CpuNow, BusNow)
       IN  /\ R' = r.cpu.R
           /\ R_banked' = r.cpu.R_banked
           /\ CPSR' = r.cpu.CPSR
           /\ mem' = r.bus.mem
           /\ warnings' = r.bus.warnings
           /\ lazy' = r.bus.lazy
    /\ adds' = IF Memory_read_word(BusNow, BusAddr(R[15])).val = INCREMENT
               THEN adds + 1 ELSE adds
    /\ cpu_cycles' = ARM7TDMI_step_cycles(cpu_cycles, get_flag_T(CpuNow) = 1)
    /\ last' = Call("step", BusAddr(R[15]), ARM7TDMI_fetch_width, ARM7TDMI_fetched,
                    << >>, "none")
    /\ prev' = last.op
    /\ UNCHANGED <<bus, window, bios, rom, ppu, keypad, key_state, cpu, pc,
                   ppuVars, keys, since, rendered, fb_len,
                   executed_cycles_total, memory_len>>

\* the steps of a run on a loaded cartridge
ARM7TDMI_step_step ==
    /\ rom # EmptyImage
    /\ nops < MaxSteps
    /\ ARM7TDMI_step_call

\* grok3gba.py GBAEmulatorApp.step: cpu.step() of the stub, then
\* show_memory_warnings()
GBAEmulatorApp_step_step ==
    /\ cpu = "Stub"
    /\ bus = "MM"
    /\ rom # EmptyImage
    /\ nops < MaxSteps
    /\ nops' = nops + 1
    /\ R' = Stub_step(R, pc).R
    /\ pc' = Stub_step(R, pc).pc
    /\ warnings' = show_memory_warnings(warnings).warnings
    /\ adds' = IF MM_read_word(BusNow, ToInt(pc)).val = INCREMENT
               THEN adds + 1 ELSE adds
    /\ last' = Call("step", ToInt(pc), 0, << >>,
                    show_memory_warnings(warnings).delivered, "none")
    /\ prev' = last.op
    /\ UNCHANGED <<bus, window, mem, bios, rom, lazy, ppu, keypad, key_state,
                   cpu, R_banked, CPSR, ppuVars, keys, since, obsVars,
                   executed_cycles_total, memory_len>>

\* GBAEmulator(root) of flamesgbav2.py, GBAEmulatorApp(root) of grok3gba.py
InitRun ==
    /\ cpu \in {"ARM7TDMI", "Stub"}
    /\ bus = IF cpu = "ARM7TDMI" THEN "Memory" ELSE "MM"
    /\ window = {}
    /\ ppu = (cpu = "ARM7TDMI")
    /\ keypad = ppu
    /\ bios = [len |-> BIOS_SIZE,
               imgs |-> IF ppu THEN <<[id |-> "nop", len |-> BIOS_SIZE]>> ELSE << >>]
    /\ mem = << >>
    /\ rom = EmptyImage
    /\ lazy = {}
    /\ key_state = 65535
    /\ warnings = << >>
    /\ R = IF cpu = "ARM7TDMI" THEN CpuConstructed.R ELSE Stub_reset.R
    /\ R_banked = CpuConstructed.R_banked
    /\ CPSR = IF cpu = "ARM7TDMI" THEN CpuConstructed.CPSR ELSE Stub_reset.CPSR
    /\ pc = IF cpu = "Stub" THEN Stub_reset.pc ELSE "absent"
    /\ last = NoCall
    /\ prev = "init"
    /\ nops = 0
    /\ IoConstructed

NextRun ==
    \/ GBAEmulator_load_rom_dialog_step
    \/ GBAEmulatorApp_load_rom_step
    \/ ARM7TDMI_step_step
    \/ GBAEmulatorApp_step_step

SpecRun == InitRun /\ [][NextRun]_vars

(***************************************************************************)
(* flamesgbav2.py: class PPU, scanline timing and rendering;               *)
(* flamesgbav0.py: class PPU over the flat 16 MB bytearray.                *)
(***************************************************************************)
\* the literals of PPU.step: cycles per scanline, scanlines per frame
ScanlineCycles == 1232
FrameScanlines == 228
\* the largest accumulator value a call of PPU.step is made with
MaxAccumulated == 2464

\* f"#{r8:02x}{g8:02x}{b8:02x}" of a 15-bit color, as <<r8, g8, b8>>
PPU_tk_color(color_15bit) ==
    LET r5 == color_15bit % 32
        g5 == (color_15bit \div 32) % 32
        b5 == (color_15bit \div 1024) % 32
    IN  <<(r5 * 255) \div 31, (g5 * 255) \div 31, (b5 * 255) \div 31>>

\* a render_scanline without the forced-blank test;
\* C22_ForcedBlankInBitmapModes tells it from PPU_pixel
PPU_pixel_ignores_blank(b, i, y) ==
    LET dispcnt == ToInt(Memory_read_halfword(b, IO_REG_START).val)
        mode == dispcnt % 8
        blank == FALSE
        x == i - y * SCREEN_WIDTH
    IN  CASE mode = 3 ->
               IF blank THEN <<0, 0, 0>>
               ELSE LET vram_offset == y * SCREEN_WIDTH * 2 + 2 * x
                    IN  IF vram_offset + 1 < VRAM_SIZE
                        THEN PPU_tk_color(Cell(b.mem, "vram", vram_offset)
                                          + 256 * Cell(b.mem, "vram", vram_offset + 1))
                        ELSE <<255, 0, 255>>
          [] mode = 4 ->
               IF blank THEN <<0, 0, 0>>
               ELSE LET page_offset == IF (dispcnt \div 16) % 2 = 1 THEN 40960 ELSE 0
                        vram_base == page_offset + y * SCREEN_WIDTH + x
                        pal_addr == Cell(b.mem, "vram", vram_base) * 2
                    IN  IF vram_base >= VRAM_SIZE THEN <<0, 0, 255>>
                        ELSE IF pal_addr + 1 >= PALETTE_RAM_SIZE THEN <<0, 255, 0>>
                        ELSE PPU_tk_color(Cell(b.mem, "palette", pal_addr)
                                          + 256 * Cell(b.mem, "palette", pal_addr + 1))
          [] OTHER -> <<17, 17, 17>>

\* a render_scanline that draws mode 5 as the bitmap of mode 3;
\* C23_UnsupportedModeFill tells it from PPU_pixel
PPU_pixel_mode5_bitmap(b, i, y) ==
    LET dispcnt == ToInt(Memory_read_halfword(b, IO_REG_START).val)
        mode == IF dispcnt % 8 = 5 THEN 3 ELSE dispcnt % 8
        blank == (dispcnt \div 128) % 2 = 1
        x == i - y * SCREEN_WIDTH
    IN  CASE mode = 3 ->
               IF blank THEN <<0, 0, 0>>
               ELSE LET vram_offset == y * SCREEN_WIDTH * 2 + 2 * x
                    IN  IF vram_offset + 1 < VRAM_SIZE
                        THEN PPU_tk_color(Cell(b.mem, "vram", vram_offset)
                                          + 256 * Cell(b.mem, "vram", vram_offset + 1))
                        ELSE <<255, 0, 255>>
          [] mode = 4 ->
               IF blank THEN <<0, 0, 0>>
               ELSE LET page_offset == IF (dispcnt \div 16) % 2 = 1 THEN 40960 ELSE 0
                        vram_base == page_offset + y * SCREEN_WIDTH + x
                        pal_addr == Cell(b.mem, "vram", vram_base) * 2
                    IN  IF vram_base >= VRAM_SIZE THEN <<0, 0, 255>>
                        ELSE IF pal_addr + 1 >= PALETTE_RAM_SIZE THEN <<0, 255, 0>>
                        ELSE PPU_tk_color(Cell(b.mem, "palette", pal_addr)
                                          + 256 * Cell(b.mem, "palette", pal_addr + 1))
          [] OTHER -> <<17, 17, 17>>

\* the color render_scanline stores at frame_buffer[i], i on scanline y
PPU_pixel(b, i, y) ==
    LET dispcnt == ToInt(Memory_read_halfword(b, IO_REG_START).val)
        mode == dispcnt % 8
        blank == (dispcnt \div 128) % 2 = 1
        x == i - y * SCREEN_WIDTH
    IN  CASE mode = 3 ->
               IF blank THEN <<0, 0, 0>>
               ELSE LET vram_offset == y * SCREEN_WIDTH * 2 + 2 * x
                    IN  IF vram_offset + 1 < VRAM_SIZE
                        THEN PPU_tk_color(Cell(b.mem, "vram", vram_offset)
                                          + 256 * Cell(b.mem, "vram", vram_offset + 1))
                        ELSE <<255, 0, 255>>
          [] mode = 4 ->
               IF blank THEN <<0, 0, 0>>
               ELSE LET page_offset == IF (dispcnt \div 16) % 2 = 1 THEN 40960 ELSE 0
                        vram_base == page_offset + y * SCREEN_WIDTH + x
                        pal_addr == Cell(b.mem, "vram", vram_base) * 2
                    IN  IF vram_base >= VRAM_SIZE THEN <<0, 0, 255>>
                        ELSE IF pal_addr + 1 >= PALETTE_RAM_SIZE THEN <<0, 255, 0>>
                        ELSE PPU_tk_color(Cell(b.mem, "palette", pal_addr)
                                          + 256 * Cell(b.mem, "palette", pal_addr + 1))
          [] OTHER -> <<17, 17, 17>>

\* a render_scanline that stores into every element of the frame buffer;
\* C24_FrameBufferShape tells it from PPU_render_scanline
PPU_render_scanline_everywhere(b, fb, y) ==
    [i \in FbProbe |-> PPU_pixel(b, i, y)]

\* render_scanline(y): every pixel of scanline y is stored
PPU_render_scanline(b, fb, y) ==
    [i \in FbProbe |-> IF i \div SCREEN_WIDTH = y THEN PPU_pixel(b, i, y) ELSE fb[i]]

\* a PPU.step that advances one scanline for every threshold the accumulator
\* holds; C20_ScanlineInRange tells it from PPU_step
PPU_step_catches_up(b, cycles) ==
    LET acc == cycles_scanline + cycles
        n == acc \div ScanlineCycles
        line == (current_scanline + n) % FrameScanlines
    IN  [current_scanline |-> line,
         cycles_scanline |-> acc % ScanlineCycles,
         frame_buffer |-> IF n > 0 /\ current_scanline < SCREEN_HEIGHT
                          THEN PPU_render_scanline(b, frame_buffer, current_scanline)
                          ELSE frame_buffer,
         rendered |-> IF n > 0 /\ current_scanline < SCREEN_HEIGHT
                      THEN current_scanline ELSE -1,
         bus |-> IF n > 0
                 THEN Memory_write_byte(b, IO_REG_START + 6, IntVal(line))
                 ELSE b]

\* a PPU.step that increments the index first and renders the scanline it
\* arrives at; C21_RenderedOncePerFrame tells it from PPU_step
PPU_step_renders_next(b, cycles) ==
    LET acc == cycles_scanline + cycles
        line == IF current_scanline + 1 = FrameScanlines THEN 0
                ELSE current_scanline + 1
    IN  IF acc >= ScanlineCycles
        THEN [current_scanline |-> line,
              cycles_scanline |-> acc - ScanlineCycles,
              frame_buffer |-> IF line < SCREEN_HEIGHT
                               THEN PPU_render_scanline(b, frame_buffer, line)
                               ELSE frame_buffer,
              rendered |-> IF line < SCREEN_HEIGHT THEN line ELSE -1,
              bus |-> Memory_write_byte(b, IO_REG_START + 6, IntVal(line))]
        ELSE [current_scanline |-> current_scanline,
              cycles_scanline |-> acc,
              frame_buffer |-> frame_buffer,
              rendered |-> -1,
              bus |-> b]

\* PPU.step(cycles); returns [current_scanline, cycles_scanline, frame_buffer,
\* rendered, bus], rendered the scanline render_scanline was called with, -1
\* when it was not called
PPU_step(b, cycles) ==
    LET acc == cycles_scanline + cycles
        line == IF current_scanline + 1 = FrameScanlines THEN 0
                ELSE current_scanline + 1
    IN  IF acc >= ScanlineCycles
        THEN [current_scanline |-> line,
              cycles_scanline |-> acc - ScanlineCycles,
              frame_buffer |-> IF current_scanline < SCREEN_HEIGHT
                               THEN PPU_render_scanline(b, frame_buffer, current_scanline)
                               ELSE frame_buffer,
              rendered |-> IF current_scanline < SCREEN_HEIGHT
                           THEN current_scanline ELSE -1,
              bus |-> Memory_read_halfword(
                          Memory_write_byte(b, IO_REG_START + 6, IntVal(line)),
                          IO_REG_START + 4).bus]
        ELSE [current_scanline |-> current_scanline,
              cycles_scanline |-> acc,
              frame_buffer |-> frame_buffer,
              rendered |-> -1,
              bus |-> b]

\* cycles handed to PPU.step
Cycles == {0, 616, 1232, 2464}

\* the scanlines at whose start the program writes to the video unit
WriteLines == {0, 160}

\* 0x7FFF to the first pixel of the bitmap; to DISPCNT mode 3, mode 3 with
\* forced blank, mode 4, mode 4 with forced blank, mode 0 with forced blank,
\* and the modes 1, 2, 5, 6, 7
VideoWrites == { [addr |-> VRAM_START, val |-> <<255, 127>>],
                 [addr |-> IO_REG_START, val |-> <<3>>],
                 [addr |-> IO_REG_START, val |-> <<131>>],
                 [addr |-> IO_REG_START, val |-> <<4>>],
                 [addr |-> IO_REG_START, val |-> <<132>>],
                 [addr |-> IO_REG_START, val |-> <<128>>] }
               \cup { [addr |-> IO_REG_START, val |-> <<mode>>] : mode \in {1, 2, 5, 6, 7} }

\* scanlines advanced since 0x7FFF was written at video RAM offset 0; -1
\* before the write
SinceAfterStep(p) ==
    IF since >= 0 /\ since < FrameScanlines /\ p.current_scanline # current_scanline
    THEN since + 1 ELSE since

PPU_step_step ==
    /\ bus = "Memory"
    /\ \E cycles \in Cycles :
          /\ cycles_scanline + cycles <= MaxAccumulated
          /\ LET p == PPU_step(BusNow, cycles)
             IN  /\ current_scanline' = p.current_scanline
                 /\ cycles_scanline' = p.cycles_scanline
                 /\ frame_buffer' = p.frame_buffer
                 /\ mem' = p.bus.mem
                 /\ warnings' = p.bus.warnings
                 /\ lazy' = p.bus.lazy
                 /\ since' = SinceAfterStep(p)
                 /\ rendered' = [now |-> p.rendered,
                                 before |-> IF rendered.now # -1 THEN rendered.now
                                            ELSE rendered.before]
          /\ last' = Call("ppu_step", 0, 0, IntVal(cycles), << >>, "none")
    /\ prev' = last.op
    /\ UNCHANGED <<bus, window, bios, rom, ppu, keypad, key_state, cpuVars, nops,
                   keys, adds, fb_len, cpu_cycles,
                   executed_cycles_total, memory_len>>

\* Memory.write_halfword to video RAM or to DISPCNT
Video_write_halfword_step ==
    /\ bus = "Memory"
    /\ cycles_scanline = 0
    /\ current_scanline \in WriteLines
    /\ \E w \in VideoWrites :
          /\ LET b == Memory_write_halfword(BusNow, w.addr, w.val)
             IN  /\ mem' = b.mem
                 /\ warnings' = b.warnings
                 /\ lazy' = b.lazy
          /\ since' = IF w.addr = VRAM_START THEN 0 ELSE since
          /\ last' = Call("write_halfword", w.addr, 2, w.val, << >>, "none")
    /\ prev' = last.op
    /\ UNCHANGED <<bus, window, bios, rom, ppu, keypad, key_state, cpuVars, nops,
                   ppuVars, keys, adds, obsVars,
                   executed_cycles_total, memory_len>>

\* len(memory[lo:hi]) of a bytearray of FLAT_SIZE bytes
FlatSliceLen(lo, hi) ==
    LET a == Min(lo, FLAT_SIZE)
        z == Min(hi, FLAT_SIZE)
    IN  IF z > a THEN z - a ELSE 0

\* PPU.__init__ of flamesgbav0.py: self.vram = memory[0x06000000:0x06018000]
PPU0_vram_len == FlatSliceLen(VRAM_START, VRAM_START + VRAM_SIZE)

\* the color render_frame appends for the pixel at vram[i], vram[i + 1]
PPU0_pixel(m, i) ==
    LET color == Cell(m, "vram", i) + 256 * Cell(m, "vram", i + 1)
    IN  <<(color % 32) * 8, ((color \div 32) % 32) * 8, ((color \div 1024) % 32) * 8>>

\* ppu.vram[0], ppu.vram[1] = 0xFF, 0x7F on the PPU of flamesgbav0.py
PPU0_vram_store_step ==
    /\ bus = "Flat"
    /\ nops < MaxOps
    /\ nops' = nops + 1
    /\ IF 1 < PPU0_vram_len
       THEN /\ mem' = Put(Put(mem, "vram", 0, 255), "vram", 1, 127)
            /\ last' = Call("vram_store", 0, 2, <<255, 127>>, << >>, "none")
       ELSE /\ mem' = mem
            /\ last' = Call("vram_store", 0, 2, <<255, 127>>, << >>, "IndexError")
    /\ prev' = last.op
    /\ UNCHANGED <<bus, window, bios, rom, lazy, ppu, keypad, key_state, warnings,
                   cpuVars, ioVars>>

\* PPU.render_frame of flamesgbav0.py: the list of pixels is returned, the
\* first index past vram raises
PPU0_render_frame_step ==
    /\ bus = "Flat"
    /\ nops < MaxOps
    /\ nops' = nops + 1
    /\ IF SCREEN_WIDTH * SCREEN_HEIGHT * 2 <= PPU0_vram_len
       THEN /\ frame_buffer' = [i \in FbProbe |-> PPU0_pixel(mem, 2 * i)]
            /\ last' = Call("render_frame", 0, 0, << >>, << >>, "none")
       ELSE /\ frame_buffer' = frame_buffer
            /\ last' = Call("render_frame", 0, 0, << >>, << >>, "IndexError")
    /\ prev' = last.op
    /\ UNCHANGED <<busVars, cpuVars, current_scanline, cycles_scanline, keys, adds,
                   since, obsVars,
                   executed_cycles_total, memory_len>>

\* GBAEmulator(root) of flamesgbav2.py; ARM7TDMI(), PPU(cpu.memory) and the
\* keys dict of flamesgbav0.py
InitPpu ==
    /\ bus \in {"Memory", "Flat"}
    /\ window = {}
    /\ ppu = (bus = "Memory")
    /\ keypad = ppu
    /\ bios = [len |-> BIOS_SIZE,
               imgs |-> IF ppu THEN <<[id |-> "nop", len |-> BIOS_SIZE]>> ELSE << >>]
    /\ mem = << >>
    /\ rom = EmptyImage
    /\ lazy = {}
    /\ key_state = 65535
    /\ warnings = << >>
    /\ cpu = "ARM7TDMI"
    /\ R = CpuConstructed.R
    /\ R_banked = CpuConstructed.R_banked
    /\ CPSR = CpuConstructed.CPSR
    /\ pc = "absent"
    /\ last = NoCall
    /\ prev = "init"
    /\ nops = 0
    /\ IoConstructed

NextPpu ==
    \/ PPU_step_step
    \/ Video_write_halfword_step
    \/ PPU0_vram_store_step
    \/ PPU0_render_frame_step

SpecPpu == InitPpu /\ [][NextPpu]_vars

\* the scanlines during which the emulator is reset: before and after the
\* first scanline is rendered, and in the blanking period
ResetLines == {0, 1, 160}

\* GBAEmulator.reset_emulator: cpu.reset(), the video unit back to scanline 0
\* with an empty accumulator, a new frame buffer of '#101010'
GBAEmulator_reset_emulator_step ==
    /\ bus = "Memory"
    /\ current_scanline \in ResetLines
    /\ R' = ARM7TDMI_reset(CpuNow).R
    /\ R_banked' = ARM7TDMI_reset(CpuNow).R_banked
    /\ CPSR' = ARM7TDMI_reset(CpuNow).CPSR
    /\ current_scanline' = 0
    /\ cycles_scanline' = 0
    /\ frame_buffer' = [i \in FbProbe |-> <<16, 16, 16>>]
    /\ fb_len' = SCREEN_WIDTH * SCREEN_HEIGHT
    /\ since' = -1
    /\ rendered' = [now |-> -1, before |-> -1]
    /\ last' = Call("reset_emulator", 0, 0, << >>, << >>, "none")
    /\ prev' = last.op
    /\ UNCHANGED <<busVars, cpu, pc, nops, keys, adds, cpu_cycles,
                   executed_cycles_total, memory_len>>

NextFrame ==
    \/ PPU_step_step
    \/ Video_write_halfword_step
    \/ GBAEmulator_reset_emulator_step

\* GBAEmulator.__init__ of flamesgbav2.py
InitFrame ==
    /\ InitPpu
    /\ bus = "Memory"

\* the video unit of flamesgbav2.py with resets of the emulator
SpecFrame == InitFrame /\ [][NextFrame]_vars

(***************************************************************************)
(* flamesgbav2.py: class Keypad and the input register on the bus;         *)
(* flamesgbav0.py: GBAEmulator.key_down, update_key_status.                *)
(***************************************************************************)
\* Keypad.key_map; -1 for a key name that is not in it
Keypad_key_map(key_name) ==
    CASE key_name = "z"       -> 0
      [] key_name = "x"       -> 1
      [] key_name = "return"  -> 3
      [] key_name = "shift_r" -> 2
      [] key_name = "up"      -> 6
      [] key_name = "down"    -> 7
      [] key_name = "left"    -> 5
      [] key_name = "right"   -> 4
      [] key_name = "a"       -> 9
      [] key_name = "s"       -> 8
      [] OTHER                -> -1

\* update_keyinput_reg: io_regs[0x130], io_regs[0x131] are stored directly
Keypad_update_keyinput_reg(m, ks) ==
    Put(Put(m, "io_regs", 304, ks % 256), "io_regs", 305, (ks \div 256) % 256)

\* 1 << bit for the bits of key_map
KeyBit(bit) == <<1, 2, 4, 8, 16, 32, 64, 128, 256, 512>>[bit + 1]

\* self.key_state &= ~(1 << bit)
Keypad_key_down(ks, key_name) ==
    LET bit == Keypad_key_map(key_name)
    IN  IF bit >= 0 /\ (ks \div KeyBit(bit)) % 2 = 1 THEN ks - KeyBit(bit) ELSE ks

\* self.key_state |= (1 << bit)
Keypad_key_up(ks, key_name) ==
    LET bit == Keypad_key_map(key_name)
    IN  IF bit >= 0 /\ (ks \div KeyBit(bit)) % 2 = 0 THEN ks + KeyBit(bit) ELSE ks

\* key names of the events: button A, button B, button L and a key without
\* a button
KeyNames == {"z", "x", "a", "q"}

\* the addresses of the two bytes of the input register
PadAddrs == {KEYINPUT_ADDR, KEYINPUT_ADDR + 1}

PadDone(m, ks, call) ==
    /\ mem' = m
    /\ key_state' = ks
    /\ last' = call
    /\ prev' = last.op
    /\ UNCHANGED <<bus, window, bios, rom, lazy, ppu, keypad, warnings, cpuVars,
                   nops, ioVars>>

Keypad_key_down_step ==
    /\ bus = "Memory"
    /\ \E key_name \in KeyNames :
          PadDone(Keypad_update_keyinput_reg(mem, Keypad_key_down(key_state, key_name)),
                  Keypad_key_down(key_state, key_name),
                  Call("key_down", Keypad_key_map(key_name), 0, << >>, << >>, "none"))

Keypad_key_up_step ==
    /\ bus = "Memory"
    /\ \E key_name \in KeyNames :
          PadDone(Keypad_update_keyinput_reg(mem, Keypad_key_up(key_state, key_name)),
                  Keypad_key_up(key_state, key_name),
                  Call("key_up", Keypad_key_map(key_name), 0, << >>, << >>, "none"))

\* Memory.read_byte / read_halfword of the input register
Pad_read_step ==
    /\ bus = "Memory"
    /\ \E addr \in PadAddrs, w \in {1, 2} :
          LET r == IF w = 1 THEN Memory_read_byte(BusNow, addr)
                   ELSE Memory_read_halfword(BusNow, addr)
          IN  PadDone(r.bus.mem, key_state,
                      Call("read", addr, w, << >>, r.val, "none"))

\* Memory.write_byte / write_halfword to the input register
Pad_write_step ==
    /\ bus = "Memory"
    /\ \E addr \in PadAddrs, w \in {1, 2}, val \in {<< >>, <<90>>} :
          LET b == IF w = 1 THEN Memory_write_byte(BusNow, addr, val)
                   ELSE Memory_write_halfword(BusNow, addr, val)
          IN  PadDone(b.mem, key_state,
                      Call("write", addr, w, val, << >>, "none"))

\* flamesgbav0.py GBAEmulator.keys: the names of the dict
Keys0 == {"a", "b", "left", "right", "up", "down"}

\* update_key_status: ~key_bits & 0xFF for the keys that are down
GBAEmulator0_key_bits(down) ==
    255 - ( (IF "a" \in down THEN 1 ELSE 0) + (IF "b" \in down THEN 2 ELSE 0)
          + (IF "left" \in down THEN 32 ELSE 0) + (IF "right" \in down THEN 16 ELSE 0)
          + (IF "up" \in down THEN 64 ELSE 0) + (IF "down" \in down THEN 128 ELSE 0) )

\* flamesgbav0.py GBAEmulator.key_down: the dict entry is set, then
\* update_key_status stores into cpu.memory[0x04000130], an index the
\* bytearray of FLAT_SIZE bytes does not have
GBAEmulator0_key_down_step ==
    /\ bus = "Flat"
    /\ \E key \in {"a", "b", "up", "q"} :
          LET down == IF key \in Keys0 THEN keys \cup {key} ELSE keys
          IN  /\ keys' = down
              /\ IF KEYINPUT_ADDR < FLAT_SIZE
                 THEN /\ mem' = Put(mem, "flat", KEYINPUT_ADDR, GBAEmulator0_key_bits(down))
                      /\ last' = Call("key_down", key, 0, << >>, << >>, "none")
                 ELSE /\ mem' = mem
                      /\ last' = Call("key_down", key, 0, << >>, << >>, "IndexError")
    /\ prev' = last.op
    /\ UNCHANGED <<bus, window, bios, rom, lazy, ppu, keypad, key_state, warnings,
                   cpuVars, nops, ppuVars, adds, since, obsVars,
                   executed_cycles_total, memory_len>>

NextPad ==
    \/ Keypad_key_down_step
    \/ Keypad_key_up_step
    \/ Pad_read_step
    \/ Pad_write_step
    \/ GBAEmulator0_key_down_step

\* the machines are constructed as for the video unit
SpecPad == InitPpu /\ [][NextPad]_vars

(***************************************************************************)
(* Vocabulary of the properties.                                           *)
(***************************************************************************)
\* the value the bus's w-byte read returns at address a in bus state b
ReadVal(b, a, w) ==
    CASE bus = "Memory" ->
            (CASE w = 1 -> Memory_read_byte(b, a).val
               [] w = 2 -> Memory_read_halfword(b, a).val
               [] OTHER -> Memory_read_word(b, a).val)
      [] bus = "MM" ->
            (CASE w = 1 -> MM_read_byte(b, a).val
               [] w = 2 -> MM_read_halfword(b, a).val
               [] OTHER -> MM_read_word(b, a).val)
      [] OTHER -> RM_read(b, a, w).val

\* the region+offset pair the bus's address-map lookup returns for a
Lookup(a) ==
    CASE bus = "Memory" -> Memory_get_memory_region_and_offset(a)
      [] bus = "MM"     -> MM_map_address(a)
      [] OTHER          -> RM_map_address(a)

UnmappedNames == {"invalid", "dummy_unmapped"}
RegionNames == {"bios", "ewram", "iwram", "io_regs", "palette", "vram", "oam",
                "rom", "sram"}

Unmapped(a) == Lookup(a).region \in UnmappedNames

\* the writable regions of the memory map
WritableBanks ==
    { [start |-> EWRAM_START, size |-> EWRAM_SIZE],
      [start |-> IWRAM_START, size |-> IWRAM_SIZE],
      [start |-> IO_REG_START, size |-> IO_REG_SIZE],
      [start |-> PALETTE_RAM_START, size |-> PALETTE_RAM_SIZE],
      [start |-> VRAM_START, size |-> VRAM_SIZE],
      [start |-> OAM_START, size |-> OAM_SIZE],
      [start |-> SRAM_START, size |-> SRAM_SIZE] }

InWritableBank(a) ==
    \E r \in WritableBanks : r.start <= a /\ a < r.start + r.size

AccessInWritableBank(a, w) ==
    \E r \in WritableBanks : r.start <= a /\ a + w <= r.start + r.size

BusNext == [mem |-> mem', warnings |-> warnings', lazy |-> lazy']
CpuNext == [R |-> R', R_banked |-> R_banked', CPSR |-> CPSR']

\* byte off of the boot bytearray bs overlaid by the cells m
BiosContent(bs, m, off) ==
    IF <<"bios", off>> \in DOMAIN m THEN m[<<"bios", off>>]
    ELSE BiosByteIn(bs.imgs, off)

\* the cells of the boot and cartridge bytearrays that a write changed
ReadOnlyCells(m) ==
    [c \in {x \in DOMAIN m : x[1] \in {"bios", "rom"}} |-> m[c]]

RoundTrips ==
    /\ last.exc = "none"
    /\ ReadVal(BusNow, last.addr, last.width) = MaskBytes(last.val, last.width)

LookupTotal(a) ==
    LET r == Lookup(a)
    IN  \/ r.region \in UnmappedNames /\ r.offset = 0
        \/ r.region \in RegionNames /\ 0 <= r.offset /\ r.offset < RegionLen(r.region)

\* the addresses of the bank under probe, and one address of each lookup that
\* reads state of the bus: the cartridge (its length), the save memory and
\* the unmapped result (both created on first use by Memory)
LookupProbe == window \cup {GAMEPAK_ROM_START + 4, SRAM_START, EWRAM_START - 1}

\* C2: every address resolves to one region with an offset inside it or to
\* the unmapped result, and no step other than a cartridge load changes what
\* any address resolves to.
C2_LookupTotalDeterministic ==
    /\ [](\A a \in LookupProbe : LookupTotal(a))
    /\ [][last'.op # "load_rom" => \A a \in LookupProbe : Lookup(a)' = Lookup(a)]_vars

\* reads and writes have happened, and a cartridge address still resolves to
\* the cartridge
C2_Witness ==
    /\ nops = 2
    /\ last.op = "write"
    /\ prev = "load_rom"
    /\ Lookup(GAMEPAK_ROM_START + 4) = [region |-> "rom", offset |-> 4]

(***************************************************************************)
(* C3  Misaligned word reads.                                              *)
(***************************************************************************)
\* C3: read_word at a misaligned address returns the aligned word at a & ~3
\* rotated right by (a % 4) * 8 bits.
C3_MisalignedReadRotates ==
    (bus \in {"Memory", "MM"} /\ last.op = "read" /\ last.width = 4
        /\ last.addr % 4 # 0)
    => last.ret = RotateRight32(ReadVal(BusNow, AlignDown(last.addr, 4), 4),
                                (last.addr % 4) * 8)

(***************************************************************************)
(* C4  Register banking.                                                   *)
(***************************************************************************)
\* what get_reg(r_idx) returns once the mode field is m
ViewIn(c, m, r_idx) == ARM7TDMI_get_reg(CPSR_enter_mode(c, m), r_idx)

\* C4: set_reg(13, v) in a banked mode m1 leaves get_reg(13) of every other
\* banked mode unchanged; get_reg(15) is R[15] in every mode.
C4_BankingLaw ==
    /\ [][ ( /\ cpu = "ARM7TDMI"
             /\ last'.op = "set_reg"
             /\ last'.addr = 13
             /\ current_mode(CpuNow) \in BankedModes )
           => \A m2 \in BankedModes \ {current_mode(CpuNow)} :
                 ViewIn(CpuNext, m2, 13) = ViewIn(CpuNow, m2, 13) ]_vars
    /\ [](cpu = "ARM7TDMI" => \A m \in Modes : ViewIn(CpuNow, m, 15) = R[15])

\* R13 was set in IRQ mode, reads back there, and Supervisor mode sees another
\* value
C4_Witness ==
    /\ cpu = "ARM7TDMI"
    /\ last.op = "set_reg"
    /\ last.addr = 13
    /\ current_mode(CpuNow) = MODE_IRQ
    /\ ARM7TDMI_get_reg(CpuNow, 13) = MaskBytes(last.val, 4)
    /\ ViewIn(CpuNow, MODE_SUPERVISOR, 13) # ARM7TDMI_get_reg(CpuNow, 13)

(***************************************************************************)
(* C5, C6  reset.                                                          *)
(***************************************************************************)
\* C5: a reset() called right after a reset() changes no register, bank,
\* status bit or program counter.
C5_ResetIdempotent ==
    [][ (last.op = "reset" /\ last'.op = "reset")
        => (R' = R /\ R_banked' = R_banked /\ CPSR' = CPSR /\ pc' = pc) ]_vars

\* two resets in a row after another call
C5_Witness ==
    /\ cpu = "ARM7TDMI"
    /\ nops = 3
    /\ prev = "reset"
    /\ last.op = "reset"

\* the program counter of the processor class of this run
ProgramCounter == IF cpu = "ARM7TDMI" THEN R[15] ELSE pc

\* C6: after reset() all registers and banks are zero, the program counter
\* is the boot region base, the mode is system, the interrupt-mask bits are
\* set and the T bit is clear.
C6_ResetState ==
    last.op = "reset" =>
        /\ \A i \in 0..14 : R[i] = << >>
        /\ \A m \in BankedModes : R_banked[m] = BankZero(m)
        /\ ProgramCounter = IntVal(BIOS_START)
        /\ current_mode(CpuNow) = MODE_SYSTEM
        /\ GetBit(CPSR, 7) = 1
        /\ GetBit(CPSR, 6) = 1
        /\ GetBit(CPSR, 5) = 0

(***************************************************************************)
(* C7, C8, C9  Failure semantics of the bus.                               *)
(***************************************************************************)
\* C7: no read and no write raises.
C7_BusNeverRaises ==
    last.op \in {"read", "write"} => last.exc = "none"

\* C8: a write to the boot or cartridge region changes no byte of either and
\* records a warning.
C8_ReadOnlyWriteDropped ==
    [][ (last'.op = "write" /\ Lookup(last'.addr).region \in {"bios", "rom"})
        => /\ bios' = bios
           /\ rom' = rom
           /\ ReadOnlyCells(mem') = ReadOnlyCells(mem)
           /\ Len(warnings') > Len(warnings) ]_vars

\* C9: the value read at an unmapped address never changes, a write to an
\* unmapped address changes no read anywhere, and it records a warning.
C9_UnmappedDropped ==
    /\ [][ \A a \in Addrs : (Unmapped(a) /\ Unmapped(a)')
              => ReadVal(BusNext, a, 1) = ReadVal(BusNow, a, 1) ]_vars
    /\ [][ (last'.op = "write" /\ Unmapped(last'.addr))
           => /\ \A a \in Addrs, w \in Widths :
                    ReadVal(BusNext, a, w) = ReadVal(BusNow, a, w)
              /\ Len(warnings') > Len(warnings) ]_vars

(***************************************************************************)
(* C10  Loading a short boot image.                                        *)
(***************************************************************************)
BiosProbe == {0, 3, 7, 8, 10, 16383}

\* C10: load_bios of an image shorter than the boot region copies the image
\* to the front, keeps every later byte and the length, and records nothing.
C10_ShortBootImage ==
    [][ (last'.op = "load_bios" /\ last'.val.len < bios.len)
        => /\ last'.exc = "none"
           /\ \A off \in BiosProbe :
                 BiosContent(bios', mem', off) =
                    IF off < last'.val.len THEN ImgByte(last'.val, off)
                    ELSE BiosContent(bios, mem, off)
           /\ bios'.len = bios.len
           /\ warnings' = warnings ]_vars

\* an 8-byte image loaded over a full boot image: byte 0 is the new image's,
\* byte 10 is still the old image's nonzero byte
C10_Witness ==
    /\ bus = "MM"
    /\ last.op = "load_bios"
    /\ last.val.len = 8
    /\ BiosContent(bios, mem, 0) = 1
    /\ BiosContent(bios, mem, 10) = 160

(***************************************************************************)
(* C11  Loading an oversize boot image.                                    *)
(***************************************************************************)
\* C11: load_bios of an image longer than the boot region does not fail,
\* leaves the first bios.len bytes of the image in the region, keeps the
\* length and records a warning.
C11_OversizeBootImage ==
    [][ (last'.op = "load_bios" /\ last'.val.len > bios.len)
        => /\ last'.exc = "none"
           /\ \A off \in BiosProbe :
                 BiosContent(bios', mem', off) = ImgByte(last'.val, off)
           /\ bios'.len = bios.len
           /\ Len(warnings') > Len(warnings) ]_vars

(***************************************************************************)
(* C12  Loading a cartridge image.                                         *)
(***************************************************************************)
RomProbe == {0, 3, 4, 11, 12}

\* C12: after load_rom(data) the cartridge is data: base+i resolves to the
\* cartridge at offset i exactly for i < len(data), where the byte is
\* data[i]; base+i resolves as unmapped for i >= len(data), whatever the
\* length of the image loaded before.
C12_CartridgeExactlyData ==
    [][ last'.op = "load_rom"
        => /\ rom' = last'.val
           /\ \A i \in RomProbe :
                 /\ (Lookup(GAMEPAK_ROM_START + i)' = [region |-> "rom", offset |-> i])
                       <=> (i < last'.val.len)
                 /\ i < last'.val.len
                       => Cell(mem, "rom", i)' = ImgByte(last'.val, i)
                 /\ i >= last'.val.len => Unmapped(GAMEPAK_ROM_START + i)' ]_vars

\* a 4-byte image loaded over the 12-byte one: offset 4 no longer resolves to
\* the cartridge
C12_Witness ==
    /\ last.op = "load_rom"
    /\ last.replaced.len = 12
    /\ last.val.len = 4
    /\ Lookup(GAMEPAK_ROM_START + 3) = [region |-> "rom", offset |-> 3]
    /\ Unmapped(GAMEPAK_ROM_START + 4)

(***************************************************************************)
(* C13  Misaligned halfword and word accesses.                             *)
(***************************************************************************)
\* the bus state after the w-byte write of v at a in bus state b
WriteRes(b, a, v, w) ==
    CASE bus = "Memory" ->
            (CASE w = 1 -> Memory_write_byte(b, a, v)
               [] w = 2 -> Memory_write_halfword(b, a, v)
               [] OTHER -> Memory_write_word(b, a, v))
      [] bus = "MM" ->
            (CASE w = 1 -> MM_write_byte(b, a, v)
               [] w = 2 -> MM_write_halfword(b, a, v)
               [] OTHER -> MM_write_word(b, a, v))
      [] OTHER -> RM_write(b, a, v, w)

\* C13: a misaligned halfword or word write changes memory as the write at
\* the aligned address does, a misaligned halfword read returns the halfword
\* at the aligned address, neither raises, and each records a warning.
C13_MisalignedAccessMasked ==
    [][ ( /\ bus \in {"Memory", "MM"}
          /\ \/ last'.op = "write" /\ last'.width \in {2, 4}
             \/ last'.op = "read" /\ last'.width = 2
          /\ last'.addr % last'.width # 0 )
        => /\ last'.exc = "none"
           /\ last'.op = "write"
                 => mem' = WriteRes(BusNow, AlignDown(last'.addr, last'.width),
                                    last'.val, last'.width).mem
           /\ last'.op = "read"
                 => last'.ret = ReadVal(BusNow, AlignDown(last'.addr, 2), 2)
           /\ Len(warnings') > Len(warnings) ]_vars

(***************************************************************************)
(* C14  Draining the warnings.                                             *)
(***************************************************************************)
\* C14: a drain delivers every warning recorded since the drain before and
\* leaves the list empty (so each warning is delivered once, and a drain
\* with nothing recorded delivers nothing).
C14_DrainDeliversAll ==
    [][ last'.op = "show_memory_warnings"
        => (last'.ret = warnings /\ warnings' = << >>) ]_vars

\* the test cartridge is loaded and the processor has been stepped 1000 times
\* since the reset that followed the load
ScenarioBDone == rom = [id |-> "test", len |-> 12] /\ nops = 1000 /\ last.op = "step"

\* C15: scenario B, program counter: with the 12-byte test cartridge loaded
\* and the processor reset, after 1000 calls of step() the program counter is
\* at least the cartridge base and less than the cartridge base + 12.
C15_ScenarioB_PC ==
    ScenarioBDone =>
        /\ ByteOf(ProgramCounter, 4) < 128
        /\ Len(ProgramCounter) <= 4
        /\ ToInt(ProgramCounter) >= GAMEPAK_ROM_START
        /\ ToInt(ProgramCounter) < GAMEPAK_ROM_START + 12

\* C16: scenario B, register 0: with the 12-byte test cartridge loaded and
\* the processor reset, after 1000 calls of step() register 0 equals the
\* number of those steps whose fetch address held the increment instruction.
C16_ScenarioB_R0 == ScenarioBDone => R[0] = IntVal(adds)

\* C17: scenario C: after 0x7FFF is written at video RAM offset 0 and the
\* video unit has gone through a full frame (228 scanlines; in flamesgbav0.py
\* one render_frame), pixel 0 of the frame buffer is (255, 255, 255).
C17_ScenarioC_White ==
    /\ (bus = "Memory" /\ since = 228) => frame_buffer[0] = <<255, 255, 255>>
    /\ (bus = "Flat" /\ last.op = "render_frame" /\ prev = "vram_store")
           => (last.exc = "none" /\ frame_buffer[0] = <<255, 255, 255>>)

\* C20: the scanline index is in 0..227 in every state of the video unit,
\* whatever non-negative cycle counts advance is called with, and a step
\* leaves it, adds 1 to it, or takes it from 227 to 0.
C20_ScanlineInRange ==
    /\ current_scanline \in 0..227
    /\ [][ /\ current_scanline' \in 0..227
           /\ \/ current_scanline' = current_scanline
              \/ current_scanline' = current_scanline + 1
              \/ (current_scanline = 227 /\ current_scanline' = 0) ]_vars

\* the index has gone from 227 to 0: scanline 1 has been rendered and the
\* index is 0 again
C20_Witness ==
    /\ bus = "Memory"
    /\ last.op = "ppu_step"
    /\ current_scanline = 0
    /\ frame_buffer[240] = <<17, 17, 17>>

\* C18: scenario D: right after button A is pressed with no other button
\* down, the byte reads and the halfword read of the input register show bit
\* 0 clear and every other bit set; in flamesgbav0.py the press stores the
\* byte 0xFE.
C18_ScenarioD_ButtonA ==
    /\ (bus = "Memory" /\ last.op = "key_down" /\ last.addr = 0 /\ key_state = 65534)
          => /\ Memory_read_byte(BusNow, KEYINPUT_ADDR).val = <<254, 255>>
             /\ Memory_read_byte(BusNow, KEYINPUT_ADDR + 1).val = <<255>>
             /\ Memory_read_halfword(BusNow, KEYINPUT_ADDR).val = <<254, 255>>
             /\ Memory_read_halfword(BusNow, KEYINPUT_ADDR + 1).val = <<254, 255>>
    /\ (bus = "Flat" /\ last.op = "key_down" /\ keys = {"a"})
          => /\ last.exc = "none"
             /\ Cell(mem, "flat", KEYINPUT_ADDR) = 254

\* C19: in every state the bytes at I/O offsets 0x130 and 0x131 are the low
\* and the high byte of key_state, the mask with bit = 0 for the buttons held.
C19_InputMirrorsMask ==
    bus = "Memory" =>
        /\ Cell(mem, "io_regs", 304) = key_state % 256
        /\ Cell(mem, "io_regs", 305) = (key_state \div 256) % 256

\* C21: a call of PPU.step renders a scanline exactly when the accumulator
\* reaches the threshold in it and the index is a visible scanline 0..159;
\* it renders the index as it is before the increment; the scanlines
\* rendered follow each other 0, 1, .., 159, 0, ..: each once per frame, in
\* increasing order; scanlines 160..227 are never rendered.
C21_RenderedOncePerFrame ==
    [][ last'.op = "ppu_step" =>
          LET reached == cycles_scanline + ToInt(last'.val) >= 1232
          IN  /\ (reached /\ current_scanline < 160)
                    => /\ rendered'.now = current_scanline
                       /\ current_scanline' = current_scanline + 1
              /\ ~(reached /\ current_scanline < 160) => rendered'.now = -1
              /\ rendered'.now # -1
                    => /\ rendered'.now \in 0..159
                       /\ rendered'.now = IF rendered'.before = -1 THEN 0
                                          ELSE (rendered'.before + 1) % 160 ]_vars

\* a second frame has begun: scanline 0 is rendered after scanline 159, the
\* blanking scanlines in between rendered nothing
C21_Witness ==
    /\ bus = "Memory"
    /\ last.op = "ppu_step"
    /\ rendered = [now |-> 0, before |-> 159]
    /\ current_scanline = 1

\* DISPCNT as render_scanline reads it
Dispcnt == Cell(mem, "io_regs", 0) + 256 * Cell(mem, "io_regs", 1)

\* the pixels the model keeps of scanline y
LineProbe(y) == {i \in FbProbe : i \div 240 = y}

\* C22 as stated: when a visible scanline is rendered with the forced-blank
\* bit of DISPCNT set, all its pixels are black, whatever the mode field.
C22_ForcedBlankAnyMode ==
    [][ (last'.op = "ppu_step" /\ rendered'.now # -1 /\ (Dispcnt \div 128) % 2 = 1)
          => \A i \in LineProbe(rendered'.now) : frame_buffer'[i] = <<0, 0, 0>> ]_vars

\* C22, amended: when a visible scanline is rendered in mode 3 or mode 4
\* with the forced-blank bit of DISPCNT set, all its pixels are black,
\* whatever video RAM holds.
C22_ForcedBlankInBitmapModes ==
    [][ (/\ last'.op = "ppu_step"
         /\ rendered'.now # -1
         /\ (Dispcnt \div 128) % 2 = 1
         /\ Dispcnt % 8 \in {3, 4})
          => \A i \in LineProbe(rendered'.now) : frame_buffer'[i] = <<0, 0, 0>> ]_vars

\* scanline 0 has just been rendered in mode 3 with forced blank while its
\* first pixel is white in video RAM
C22_Witness ==
    /\ bus = "Memory"
    /\ last.op = "ppu_step"
    /\ rendered.now = 0
    /\ Dispcnt = 131
    /\ Cell(mem, "vram", 0) = 255
    /\ frame_buffer[0] = <<0, 0, 0>>

\* C23: when a visible scanline is rendered with a mode field other than 3
\* and 4, the call does not fail and all pixels of the scanline are the
\* diagnostic color #111111.
C23_UnsupportedModeFill ==
    [][ (last'.op = "ppu_step" /\ rendered'.now # -1 /\ Dispcnt % 8 \notin {3, 4})
          => /\ last'.exc = "none"
             /\ \A i \in LineProbe(rendered'.now) : frame_buffer'[i] = <<17, 17, 17>> ]_vars

\* scanline 0 has just been rendered in mode 5 while its first pixel is
\* white in video RAM
C23_Witness ==
    /\ bus = "Memory"
    /\ last.op = "ppu_step"
    /\ rendered.now = 0
    /\ Dispcnt = 5
    /\ Cell(mem, "vram", 0) = 255
    /\ frame_buffer[0] = <<17, 17, 17>>

\* C24: the frame buffer has 240 * 160 elements in every state reached by
\* PPU.step, register writes and reset_emulator, and a call of PPU.step
\* that renders scanline y changes no element outside y*240 .. y*240+239.
C24_FrameBufferShape ==
    /\ fb_len = 38400
    /\ [][ /\ fb_len' = 38400
           /\ DOMAIN frame_buffer' = DOMAIN frame_buffer
           /\ last'.op = "ppu_step"
                 => \A i \in FbProbe \ LineProbe(rendered'.now) :
                        frame_buffer'[i] = frame_buffer[i] ]_vars

\* after a reset scanline 0 has been rendered: its first element is drawn,
\* the first element of scanline 1 still has the color of the reset
C24_Witness ==
    /\ last.op = "ppu_step"
    /\ rendered.now = 0
    /\ frame_buffer[0] = <<17, 17, 17>>
    /\ frame_buffer[240] = <<16, 16, 16>>
    /\ fb_len = 38400

(***************************************************************************)
(* One instruction at a time: ARM7TDMI.step of flamesgbav2.py and          *)
(* ARM7TDMI.execute of flamesgbav0.py on a program placed in memory.       *)
(***************************************************************************)
MaxExecSteps == 2

\* a + b + carry of two Python ints, no width limit
RECURSIVE AddCarry(_, _, _)
AddCarry(a, b, carry) ==
    IF a = << >> /\ b = << >>
    THEN (IF carry = 0 THEN << >> ELSE <<carry>>)
    ELSE LET sum == ByteOf(a, 1) + ByteOf(b, 1) + carry
         IN  <<sum % 256>> \o AddCarry(IF a = << >> THEN a ELSE Tail(a),
                                       IF b = << >> THEN b ELSE Tail(b),
                                       sum \div 256)

\* flamesgbav0.py ARM7TDMI.check_cond: "Always execute for demo"
ARM7TDMI0_check_cond(cond) == TRUE

\* flamesgbav0.py ARM7TDMI.execute_arm: reg is a list of Python ints, and
\* reg[15] += offset * 4 is not reduced to 32 bits
ARM7TDMI0_execute_arm(reg, opcode) ==
    IF ~ARM7TDMI0_check_cond(Field(opcode, 28, 4)) THEN reg
    ELSE IF Field(opcode, 24, 4) = 10
    THEN LET offset == Canon(<<ByteOf(opcode, 1), ByteOf(opcode, 2), ByteOf(opcode, 3),
                               IF ByteOf(opcode, 3) >= 128 THEN 255 ELSE 0>>)
             twice == AddCarry(offset, offset, 0)
         IN  [reg EXCEPT ![15] = AddCarry(@, AddCarry(twice, twice, 0), 0)]
    ELSE reg

\* flamesgbav0.py ARM7TDMI.execute with thumb_mode False, as __init__ leaves
\* it (nothing assigns it afterwards): struct.unpack raises struct.error when
\* the slice memory[pc:pc+4] is shorter than 4 bytes
ARM7TDMI0_execute(reg, m) ==
    LET pc0 == reg[15]
    IN  IF (Len(pc0) <= 3 \/ (Len(pc0) = 4 /\ pc0[4] < 128))
           /\ ToInt(pc0) <= memory_len - 4
        THEN LET at == ToInt(pc0)
                 opcode == Canon([i \in 1..4 |-> Cell(m, "flat", at + i - 1)])
             IN  [reg |-> ARM7TDMI0_execute_arm([reg EXCEPT ![15] = AddSmall(pc0, 4)],
                                                opcode),
                  opcode |-> opcode, exc |-> "none"]
        ELSE [reg |-> reg, opcode |-> << >>, exc |-> "struct.error"]

\* wide programs: one instruction, given as the 28 bits below the condition
\* field; those of CondPrograms are run under each of the 16 conditions
CondPrograms ==
    { <<2, 0, 0, 10>>,          \* B    +8
      <<2, 0, 0, 11>>,          \* BL   +8
      <<1, 0, 128, 2>>,         \* ADD  R0, R0, #1
      <<4, 0, 159, 5>>,         \* LDR  R0, [PC, #4]
      <<30, 255, 47, 1>> }      \* BX   LR

AlwaysPrograms ==
    { <<0, 0, 160, 1>>,         \* MOV  R0, R0
      <<0, 16, 128, 5>>,        \* STR  R1, [R0]
      <<0, 0, 145, 5>>,         \* LDR  R0, [R1]
      <<145, 0, 0, 0>>,         \* MUL  R0, R1, R0
      <<144, 0, 0, 1>>,         \* SWP  R0, R0, [R0]
      <<0, 0, 15, 1>>,          \* MRS  R0, CPSR
      <<1, 0, 189, 8>>,         \* LDMIA SP!, {R0}
      <<0, 0, 0, 12>>,          \* STC
      <<0, 0, 0, 14>>,          \* CDP
      <<0, 0, 0, 15>>,          \* SWI  0
      <<5, 0, 0, 15>>,          \* SWI  5
      <<252, 255, 255, 10>>,    \* B    -16
      <<16, 255, 47, 1>>,       \* BX   R0
      <<62, 255, 47, 1>>,       \* BLX  LR
      <<14, 240, 160, 1>> }     \* MOV  PC, LR

WithCond(low28, cond) == [low28 EXCEPT ![4] = @ + 16 * cond]

WidePrograms ==
    {WithCond(p, cond) : p \in CondPrograms, cond \in 0..15}
        \cup {WithCond(p, 14) : p \in AlwaysPrograms}

\* narrow programs, one halfword
NarrowPrograms ==
    { <<2, 208>>,       \* BEQ +4
      <<254, 208>>,     \* BEQ -4
      <<2, 209>>,       \* BNE +4
      <<2, 224>>,       \* B   +4
      <<254, 231>>,     \* B   -4
      <<112, 71>>,      \* BX  LR
      <<0, 71>>,        \* BX  R0
      <<64, 28>>,       \* ADD R0, R0, #1
      <<0, 190>>,       \* BKPT
      <<0, 240>> }      \* BL, first half

\* programs for flamesgbav0.py, complete words
FlatPrograms ==
    { <<2, 0, 0, 234>>,         \* B    +8
      <<252, 255, 255, 234>>,   \* B    -16
      <<2, 0, 0, 10>>,          \* BEQ  +8
      <<2, 0, 0, 235>>,         \* BL   +8
      <<0, 0, 160, 225>>,       \* MOV  R0, R0
      <<1, 0, 128, 226>> }      \* ADD  R0, R0, #1

\* the literal a program may load
ExecLiteral == <<239, 190, 173, 222>>

\* ARM7TDMI() of flamesgbav2.py, then set_reg(0, 0x03000000),
\* set_reg(1, 0x02000008), set_reg(14, 0x02000101), set_pc(EWRAM_START),
\* the four flags set from the bits of f, and set_thumb_mode(thumb)
ExecCpu(f, thumb) ==
    LET c1 == ARM7TDMI_set_reg(CpuConstructed, 0, <<0, 0, 0, 3>>)
        c2 == ARM7TDMI_set_reg(c1, 1, <<8, 0, 0, 2>>)
        c3 == ARM7TDMI_set_reg(c2, 14, <<1, 1, 0, 2>>)
        c4 == ARM7TDMI_set_pc(c3, IntVal(EWRAM_START))
        c5 == set_flag_V(set_flag_C(set_flag_Z(set_flag_N(c4, (f \div 8) % 2),
                                               (f \div 4) % 2),
                                    (f \div 2) % 2),
                         f % 2)
    IN  set_thumb_mode(c5, thumb)

\* Memory.write_word / write_halfword of the program at EWRAM_START and
\* write_word of the literal two words further
ExecBus(program) ==
    LET b0 == [mem |-> << >>, warnings |-> << >>, lazy |-> {}]
        b1 == IF Len(program) = 2
              THEN Memory_write_halfword(b0, EWRAM_START, program)
              ELSE Memory_write_word(b0, EWRAM_START, Canon(program))
    IN  Memory_write_word(b1, EWRAM_START + 8, ExecLiteral)

InitExec ==
    /\ bus \in {"Memory", "Flat"}
    /\ window = {}
    /\ ppu = (bus = "Memory")
    /\ keypad = ppu
    /\ bios = [len |-> BIOS_SIZE,
               imgs |-> IF ppu THEN <<[id |-> "nop", len |-> BIOS_SIZE]>> ELSE << >>]
    /\ rom = EmptyImage
    /\ key_state = 65535
    /\ R_banked = CpuConstructed.R_banked
    /\ pc = "absent"
    /\ last = NoCall
    /\ prev = "init"
    /\ nops = 0
    /\ IoConstructed
    /\ \/ /\ bus = "Memory"
          /\ cpu = "ARM7TDMI"
          /\ \E f \in 0..15, program \in WidePrograms \cup NarrowPrograms :
                /\ R = ExecCpu(f, Len(program) = 2).R
                /\ CPSR = ExecCpu(f, Len(program) = 2).CPSR
                /\ mem = ExecBus(program).mem
                /\ warnings = ExecBus(program).warnings
                /\ lazy = ExecBus(program).lazy
       \/ /\ bus = "Flat"
          /\ cpu = "ARM7TDMI0"
          /\ \E program \in FlatPrograms :
                mem = Put(Put(Put(Put(<< >>, "flat", 0, program[1]),
                                      "flat", 1, program[2]),
                                  "flat", 2, program[3]),
                              "flat", 3, program[4])
          /\ R = [i \in 0..15 |-> << >>]
          /\ CPSR = IntVal(31)
          /\ warnings = << >>
          /\ lazy = {}

\* ARM7TDMI.step() of flamesgbav2.py on the program in memory
ARM7TDMI_step_exec_step ==
    /\ rom = EmptyImage
    /\ nops < MaxExecSteps
    /\ ARM7TDMI_step_call

\* ARM7TDMI.check_cond(cond) of flamesgbav2.py
ARM7TDMI_check_cond_step ==
    /\ cpu = "ARM7TDMI"
    /\ nops < MaxExecSteps
    /\ \E cond \in 0..15 :
          last' = Call("check_cond", cond, 0, << >>,
                       ARM7TDMI_check_cond(CpuNow, cond), "none")
    /\ nops' = nops + 1
    /\ prev' = last.op
    /\ UNCHANGED <<busVars, cpuVars, ioVars>>

\* ARM7TDMI.execute() of flamesgbav0.py
ARM7TDMI0_execute_step ==
    /\ cpu = "ARM7TDMI0"
    /\ nops < MaxExecSteps
    /\ LET r == ARM7TDMI0_execute(R, mem)
       IN  /\ R' = r.reg
           /\ last' = Call("execute", 0, 4, r.opcode, << >>, r.exc)
    /\ nops' = nops + 1
    /\ prev' = last.op
    /\ UNCHANGED <<busVars, cpu, R_banked, CPSR, pc, ioVars>>

\* ARM7TDMI.check_cond(cond) of flamesgbav0.py
ARM7TDMI0_check_cond_step ==
    /\ cpu = "ARM7TDMI0"
    /\ nops < MaxExecSteps
    /\ \E cond \in 0..15 :
          last' = Call("check_cond", cond, 0, << >>, ARM7TDMI0_check_cond(cond), "none")
    /\ nops' = nops + 1
    /\ prev' = last.op
    /\ UNCHANGED <<busVars, cpuVars, ioVars>>

NextExec ==
    \/ ARM7TDMI_step_exec_step
    \/ ARM7TDMI_check_cond_step
    \/ ARM7TDMI0_execute_step
    \/ ARM7TDMI0_check_cond_step

SpecExec == InitExec /\ [][NextExec]_vars

\* the condition table of the architecture: EQ, NE, CS, CC, MI, PL, VS, VC,
\* HI, LS, GE, LT, GT, LE, always, never, on the flags n, z, c, v
CondTable(cond, n, z, c, v) ==
    <<z = 1, z = 0, c = 1, c = 0, n = 1, n = 0, v = 1, v = 0,
      c = 1 /\ z = 0, c = 0 \/ z = 1, n = v, n # v,
      z = 0 /\ n = v, z = 1 \/ n # v, TRUE, FALSE>>[cond + 1]

\* the table on the flags of the current state
CondHolds(cond) ==
    CondTable(cond, GetBit(CPSR, 31), GetBit(CPSR, 30), GetBit(CPSR, 29), GetBit(CPSR, 28))

\* a call of step of flamesgbav2.py is the step from this state to the next
Stepping == cpu = "ARM7TDMI" /\ last'.op = "step" /\ nops' = nops + 1

\* the wide opcode names an instruction the decoder carries out: the no-op
\* move, B and BL, BX and BLX by register, MOV PC, LR, a load relative to
\* the program counter, and the software interrupts 0, 1 and 2
WideImplemented(opcode) ==
    \/ opcode = Hex32(225, 160, 0, 0)
    \/ Field(opcode, 25, 3) = 5
    \/ MaskEq(opcode, Hex32(15, 255, 255, 208), Hex32(1, 47, 255, 16))
    \/ MaskEq(opcode, Hex32(15, 255, 255, 255), Hex32(1, 160, 240, 14))
    \/ Field(opcode, 26, 2) = 1 /\ GetBit(opcode, 20) = 1 /\ Field(opcode, 16, 4) = 15
    \/ Field(opcode, 24, 4) = 15 /\ Field(opcode, 0, 24) \in {0, 1, 2}

\* the narrow opcode names an instruction the decoder carries out: the
\* branch on equal, the unconditional branch, BX
NarrowImplemented(opcode) ==
    \/ ToInt(opcode) \div 256 = 208
    \/ ToInt(opcode) \div 2048 = 28
    \/ ToInt(opcode) \div 256 = 71

\* C25: a step whose opcode matches no implemented instruction returns
\* normally, advances the program counter by the fetched width, consumes the
\* fetch cost and changes no other register, no status bit and no memory.
C25_UnrecognizedIsNoOp ==
    [][ (/\ Stepping
         /\ IF last'.width = 4 THEN ~WideImplemented(last'.val)
                               ELSE ~NarrowImplemented(last'.val))
        => /\ last'.exc = "none"
           /\ R' = [R EXCEPT ![15] = Add32(R[15], IntVal(last'.width))]
           /\ R_banked' = R_banked
           /\ CPSR' = CPSR
           /\ mem' = mem
           /\ cpu_cycles' = cpu_cycles + 1 ]_vars

\* LDR R0, [R1] was stepped over: R1 points at the literal, R0 is as it was
C25_Witness ==
    /\ cpu = "ARM7TDMI"
    /\ last.op = "step"
    /\ last.val = Hex32(229, 145, 0, 0)
    /\ R[0] = <<0, 0, 0, 3>>
    /\ R[15] = IntVal(EWRAM_START + 4)
    /\ cpu_cycles = 1

\* C26: a wide step whose condition field fails on the current flags adds 4
\* to the program counter, consumes the fetch cost and changes nothing else,
\* whatever the opcode.
C26_FailedConditionSkips ==
    [][ (/\ Stepping
         /\ last'.width = 4
         /\ ~CondHolds(Field(last'.val, 28, 4)))
        => /\ last'.exc = "none"
           /\ R' = [R EXCEPT ![15] = Add32(R[15], IntVal(4))]
           /\ R_banked' = R_banked
           /\ CPSR' = CPSR
           /\ mem' = mem
           /\ cpu_cycles' = cpu_cycles + 1 ]_vars

\* BLNE with Z set was stepped over: the link register is as it was
C26_Witness ==
    /\ cpu = "ARM7TDMI"
    /\ last.op = "step"
    /\ last.val = Hex32(27, 0, 0, 2)
    /\ GetBit(CPSR, 30) = 1
    /\ R[14] = <<1, 1, 0, 2>>
    /\ R[15] = IntVal(EWRAM_START + 4)
    /\ cpu_cycles = 1

\* C27: check_cond(cond) is the condition table of the architecture, for
\* each of the 16 codes on each of the 16 combinations of N, Z, C and V.
C27_CheckCondIsTable ==
    last.op = "check_cond" => last.ret = CondHolds(last.addr)

\* a call of step of flamesgbav2.py or of execute of flamesgbav0.py is the
\* step from this state to the next
Executing ==
    /\ nops' = nops + 1
    /\ \/ cpu = "ARM7TDMI" /\ last'.op = "step"
       \/ cpu = "ARM7TDMI0" /\ last'.op = "execute" /\ last'.exc = "none"

\* the opcode is a branch by an immediate displacement that is taken on the
\* current flags: wide B and BL; narrow conditional and unconditional branch
TakenBranch(width, opcode) ==
    IF width = 4
    THEN Field(opcode, 25, 3) = 5 /\ CondHolds(Field(opcode, 28, 4))
    ELSE \/ ToInt(opcode) \div 2048 = 28
         \/ /\ ToInt(opcode) \div 4096 = 13
            /\ (ToInt(opcode) \div 256) % 16 < 14
            /\ CondHolds((ToInt(opcode) \div 256) % 16)

\* the displacement of the branch in bytes, sign-extended to 32 bits
Displacement(width, opcode) ==
    LET hw == ToInt(opcode)
        ext(top) == IF top THEN 255 ELSE 0
        words == Canon(<<ByteOf(opcode, 1), ByteOf(opcode, 2), ByteOf(opcode, 3),
                         ext(ByteOf(opcode, 3) >= 128)>>)
        o8 == Canon(<<hw % 256, ext(hw % 256 >= 128), ext(hw % 256 >= 128),
                      ext(hw % 256 >= 128)>>)
        o11 == Canon(<<hw % 256,
                       IF hw % 2048 >= 1024 THEN 248 + (hw % 2048) \div 256
                                            ELSE (hw % 2048) \div 256,
                       ext(hw % 2048 >= 1024), ext(hw % 2048 >= 1024)>>)
    IN  IF width = 4 THEN Add32(Add32(words, words), Add32(words, words))
        ELSE IF hw \div 2048 = 28 THEN Add32(o11, o11)
        ELSE Add32(o8, o8)

\* the instruction may write the program counter: a branch, BX or BLX, a
\* software interrupt, a wide instruction with destination R15, a block load
\* with R15 in its list; narrow: branches, the high-register group, POP {PC}
WritesPc(width, opcode) ==
    IF width = 4
    THEN /\ CondHolds(Field(opcode, 28, 4))
         /\ \/ Field(opcode, 25, 3) = 5
            \/ Field(opcode, 24, 4) = 15
            \/ MaskEq(opcode, Hex32(15, 255, 255, 208), Hex32(1, 47, 255, 16))
            \/ Field(opcode, 26, 2) \in {0, 1} /\ Field(opcode, 12, 4) = 15
            \/ Field(opcode, 25, 3) = 4 /\ GetBit(opcode, 15) = 1
    ELSE \/ ToInt(opcode) \div 4096 \in {13, 14, 15}
         \/ ToInt(opcode) \div 1024 = 17
         \/ ToInt(opcode) \div 256 = 189

\* C28: the instruction is fetched at the program counter, 4 bytes wide or 2
\* bytes narrow; afterwards the program counter of an instruction that does
\* not branch is the old one plus the width, and that of a branch by an
\* immediate displacement is the old one plus the width plus the
\* sign-extended displacement, modulo 2^32.
C28_FetchAdvanceBranch ==
    [][ Executing =>
          /\ last'.width = (IF cpu = "ARM7TDMI" /\ GetBit(CPSR, 5) = 1 THEN 2 ELSE 4)
          /\ TakenBranch(last'.width, last'.val)
                => R'[15] = Add32(Add32(R[15], IntVal(last'.width)),
                                  Displacement(last'.width, last'.val))
          /\ ~WritesPc(last'.width, last'.val)
                => R'[15] = Add32(R[15], IntVal(last'.width)) ]_vars

\* C29: a taken wide branch with link leaves in R14 of the current bank the
\* address of the instruction after the branch, the old program counter + 4.
C29_LinkIsReturnAddress ==
    [][ (/\ Stepping
         /\ last'.width = 4
         /\ Field(last'.val, 24, 4) = 11
         /\ CondHolds(Field(last'.val, 28, 4)))
        => ARM7TDMI_get_reg([R |-> R', R_banked |-> R_banked', CPSR |-> CPSR'], 14)
              = Add32(R[15], IntVal(4)) ]_vars

\* the register a branch-and-exchange names: bits 0..3 wide, bits 3..6 narrow
ExchangeRegister(width, opcode) ==
    IF width = 4 THEN Field(opcode, 0, 4) ELSE (ToInt(opcode) \div 8) % 16

\* C30: after a branch-and-exchange through Rn, wide (taken) or narrow, the
\* T flag is bit 0 of Rn, the program counter is Rn with bit 0 cleared, and
\* no other bit of CPSR has changed.
C30_ExchangeSetsModeAndPc ==
    [][ (/\ Stepping
         /\ IF last'.width = 4
            THEN /\ MaskEq(last'.val, Hex32(15, 255, 255, 240), Hex32(1, 47, 255, 16))
                 /\ CondHolds(Field(last'.val, 28, 4))
            ELSE ToInt(last'.val) \div 128 = 142)
        => LET Rn == ARM7TDMI_get_reg(CpuNow,
                                      ExchangeRegister(last'.width, last'.val))
           IN  /\ CPSR' = SetBit(CPSR, 5, GetBit(Rn, 0))
               /\ R'[15] = SetBit(Rn, 0, 0) ]_vars

\* C31: a taken software interrupt, whatever its 24-bit number, leaves the
\* program counter equal to R14 and raises nothing.
C31_SoftwareInterruptReturns ==
    [][ (/\ Stepping
         /\ last'.width = 4
         /\ Field(last'.val, 24, 4) = 15
         /\ CondHolds(Field(last'.val, 28, 4)))
        => /\ last'.exc = "none"
           /\ R'[15] = ARM7TDMI_get_reg(CpuNow, 14) ]_vars

\* C32: a narrow conditional branch of condition c, c in 0..13, adds the
\* sign-extended 8-bit offset times 2 to the advanced program counter exactly
\* when c holds on the flags, and otherwise only advances it; nothing else
\* changes.
C32_NarrowBranchOwnCondition ==
    [][ (/\ Stepping
         /\ last'.width = 2
         /\ ToInt(last'.val) \div 4096 = 13
         /\ (ToInt(last'.val) \div 256) % 16 < 14)
        => /\ R' = [R EXCEPT ![15] =
                      IF CondHolds((ToInt(last'.val) \div 256) % 16)
                      THEN Add32(Add32(R[15], IntVal(2)), Displacement(2, last'.val))
                      ELSE Add32(R[15], IntVal(2))]
           /\ CPSR' = CPSR
           /\ R_banked' = R_banked
           /\ mem' = mem ]_vars

\* C33: a call of step leaves every byte of every memory region as it was.
C33_StepWritesNoMemory ==
    [][ Stepping => mem' = mem ]_vars

\* STR R1, [R0] was stepped over with R0 = 0x03000000: the work RAM it
\* addresses is still zero and the program is still in place
C33_Witness ==
    /\ cpu = "ARM7TDMI"
    /\ last.op = "step"
    /\ last.val = Hex32(229, 128, 16, 0)
    /\ Cell(mem, "iwram", 0) = 0
    /\ Cell(mem, "ewram", 1) = 16
    /\ Cell(mem, "ewram", 8) = 239

\* C34: a call of step changes no bit of CPSR other than bit 5 (T): the mode
\* field, the I and F bits and N, Z, C, V stay; the mode stays System, whose
\* R13 and R14 are not banked, and the banked registers are left alone.
C34_StepKeepsModeAndFlags ==
    /\ (cpu = "ARM7TDMI" => current_mode(CpuNow) = MODE_SYSTEM)
    /\ [][ Stepping => /\ SetBit(CPSR', 5, 0) = SetBit(CPSR, 5, 0)
                       /\ current_mode([CPSR |-> CPSR']) = MODE_SYSTEM
                       /\ R_banked' = R_banked ]_vars

\* the narrow BX R0 was stepped with the flags as reset leaves them: T went
\* from 1 to 0 and System mode with I and F set is all that is left in CPSR
C34_Witness ==
    /\ cpu = "ARM7TDMI"
    /\ last.op = "step"
    /\ last.width = 2
    /\ last.val = <<0, 71>>
    /\ CPSR = IntVal(MODE_SYSTEM + 192)
    /\ R[15] = <<0, 0, 0, 3>>

\* C35: a 1-byte bus read that returns at all returns an integer in 0..255,
\* at every address and in every state, the input register with a keypad
\* connected included.
C35_ByteReadIsByte ==
    (last.op = "read" /\ last.width = 1 /\ last.exc = "none")
        => Len(last.ret) <= 1

(***************************************************************************)
(* flamesgbav2.py: the mirrored regions of Memory, byte accesses at the    *)
(* first, the last and the first repeated address of each 16 MB window.    *)
(***************************************************************************)
\* the address space given to each mirrored region: 0x1000000
MIRROR_WINDOW == IWRAM_START - EWRAM_START

\* the regions _get_memory_region_and_offset reduces modulo their size
MirroredRegions ==
    { [name |-> "ewram",   base |-> EWRAM_START,       size |-> EWRAM_SIZE],
      [name |-> "iwram",   base |-> IWRAM_START,       size |-> IWRAM_SIZE],
      [name |-> "io_regs", base |-> IO_REG_START,      size |-> IO_REG_SIZE],
      [name |-> "palette", base |-> PALETTE_RAM_START, size |-> PALETTE_RAM_SIZE],
      [name |-> "vram",    base |-> VRAM_START,        size |-> VRAM_SIZE],
      [name |-> "oam",     base |-> OAM_START,         size |-> OAM_SIZE] }

\* an offset past the display registers, its first mirror image, and the
\* last two addresses of the window
MirrorWindows ==
    { {g.base + 96, g.base + g.size + 96,
       g.base + MIRROR_WINDOW - 2, g.base + MIRROR_WINDOW - 1} : g \in MirroredRegions }

\* Memory() of flamesgbav2.py with the video unit and the keypad connected
InitMirror ==
    /\ bus = "Memory"
    /\ window \in MirrorWindows
    /\ ppu = TRUE
    /\ keypad = TRUE
    /\ bios = [len |-> BIOS_SIZE, imgs |-> <<[id |-> "nop", len |-> BIOS_SIZE]>>]
    /\ mem = << >>
    /\ rom = EmptyImage
    /\ lazy = {}
    /\ key_state = 65535
    /\ warnings = << >>
    /\ cpu = "ARM7TDMI"
    /\ R = CpuConstructed.R
    /\ R_banked = CpuConstructed.R_banked
    /\ CPSR = CpuConstructed.CPSR
    /\ pc = "absent"
    /\ last = NoCall
    /\ prev = "init"
    /\ nops = 0
    /\ IoConstructed

NextMirror ==
    \/ Memory_read_byte_step
    \/ Memory_write_byte_step

SpecMirror == InitMirror /\ [][NextMirror]_vars

\* the mirrored region whose 16 MB window holds the address
RegionOf(a) == CHOOSE g \in MirroredRegions : g.base <= a /\ a < g.base + MIRROR_WINDOW

\* C36: a byte access at an address a of the 16 MB window of a mirrored
\* region goes to that region at offset (a - base) mod size: a write leaves
\* its byte there and a read returns the byte there.
C36_MirrorResolves ==
    (last.op \in {"read", "write"} /\ last.width = 1)
        => LET g == RegionOf(last.addr)
               byte == Cell(mem, g.name, (last.addr - g.base) % g.size)
           IN  IF last.op = "read" THEN last.ret = IntVal(byte)
               ELSE byte = ByteOf(last.val, 1)

\* C37: in every state reached by PPU.step and reset_emulator the byte of the
\* scanline-counter register, I/O offset 6, is current_scanline.
C37_CounterRegisterIsScanline ==
    bus = "Memory" => Cell(mem, "io_regs", 6) = current_scanline

(***************************************************************************)
(* flamesgbav2.py: one call of GBAEmulator.emulation_loop on the test      *)
(* cartridge, an action per pass of its while loop.                        *)
(***************************************************************************)
\* CPU_FREQ // 60 with CPU_FREQ = 16777216
CYCLES_PER_FRAME == 279620

\* GBAEmulator(root), load_rom_dialog with the test cartridge (load_rom,
\* reset_emulator) and start_emulation: running is True
InitLoop ==
    /\ bus = "Memory"
    /\ window = {}
    /\ ppu = TRUE
    /\ keypad = TRUE
    /\ bios = [len |-> BIOS_SIZE, imgs |-> <<[id |-> "nop", len |-> BIOS_SIZE]>>]
    /\ mem = << >>
    /\ rom = load_rom([id |-> "test", len |-> 12])
    /\ lazy = {}
    /\ key_state = 65535
    /\ warnings = << >>
    /\ cpu = "ARM7TDMI"
    /\ R = CpuConstructed.R
    /\ R_banked = CpuConstructed.R_banked
    /\ CPSR = CpuConstructed.CPSR
    /\ pc = "absent"
    /\ last = NoCall
    /\ prev = "init"
    /\ nops = 0
    /\ current_scanline = 0
    /\ cycles_scanline = 0
    /\ frame_buffer = [i \in FbProbe |-> <<16, 16, 16>>]
    /\ keys = {}
    /\ adds = 0
    /\ since = -1
    /\ rendered = [now |-> -1, before |-> -1]
    /\ fb_len = SCREEN_WIDTH * SCREEN_HEIGHT
    /\ cpu_cycles = 0
    /\ executed_cycles_total = 0
    /\ memory_len = FLAT_SIZE

\* one pass of the while loop: cpu.step(), ppu.step(executed_this_step),
\* executed_cycles_total += executed_this_step
GBAEmulator_emulation_loop_pass_step ==
    /\ bus = "Memory"
    /\ cpu = "ARM7TDMI"
    /\ last.op # "emulation_loop"
    /\ executed_cycles_total < CYCLES_PER_FRAME
    /\ LET cycles_before_step == cpu_cycles
           r == ARM7TDMI_step(CpuNow, BusNow)
           cycles_after == ARM7TDMI_step_cycles(cpu_cycles, get_flag_T(CpuNow) = 1)
           executed_this_step == cycles_after - cycles_before_step
           p == PPU_step(r.bus, executed_this_step)
       IN  /\ R' = r.cpu.R
           /\ R_banked' = r.cpu.R_banked
           /\ CPSR' = r.cpu.CPSR
           /\ cpu_cycles' = cycles_after
           /\ current_scanline' = p.current_scanline
           /\ cycles_scanline' = p.cycles_scanline
           /\ frame_buffer' = p.frame_buffer
           /\ mem' = p.bus.mem
           /\ warnings' = p.bus.warnings
           /\ lazy' = p.bus.lazy
           /\ since' = SinceAfterStep(p)
           /\ rendered' = [now |-> p.rendered,
                           before |-> IF rendered.now # -1 THEN rendered.now
                                      ELSE rendered.before]
           /\ executed_cycles_total' = executed_cycles_total + executed_this_step
           /\ last' = Call("loop_pass", BusAddr(R[15]), ARM7TDMI_fetch_width,
                           ARM7TDMI_fetched, IntVal(executed_this_step), "none")
    /\ adds' = IF Memory_read_word(BusNow, BusAddr(R[15])).val = INCREMENT
               THEN adds + 1 ELSE adds
    /\ prev' = last.op
    /\ UNCHANGED <<bus, window, bios, rom, ppu, keypad, key_state, cpu, pc, nops,
                   keys, fb_len, memory_len>>

\* the loop condition fails: cycles_this_frame = executed_cycles_total, and
\* the call returns
GBAEmulator_emulation_loop_end_step ==
    /\ bus = "Memory"
    /\ cpu = "ARM7TDMI"
    /\ last.op # "emulation_loop"
    /\ executed_cycles_total >= CYCLES_PER_FRAME
    /\ last' = Call("emulation_loop", 0, 0, << >>, IntVal(executed_cycles_total), "none")
    /\ prev' = last.op
    /\ UNCHANGED <<busVars, cpuVars, nops, ioVars>>

NextLoop ==
    \/ GBAEmulator_emulation_loop_pass_step
    \/ GBAEmulator_emulation_loop_end_step

SpecLoop == InitLoop /\ [][NextLoop]_vars

\* the pass of the loop at which the late runs take it up
LoopResume == 277155

\* the state of the emulator after n passes of the loop on the test
\* cartridge, for n past the boot image and off a scanline boundary: reset
\* starts the processor at BIOS_START, so it has run the 4096 no-ops of the
\* boot image and then the zero words read past it, whose condition EQ
\* fails; the video unit has advanced one scanline per 1232 cycles, filling
\* the visible ones in mode 0
LoopStateAt(n) ==
    /\ bus = "Memory"
    /\ window = {}
    /\ ppu = TRUE
    /\ keypad = TRUE
    /\ bios = [len |-> BIOS_SIZE, imgs |-> <<[id |-> "nop", len |-> BIOS_SIZE]>>]
    /\ mem = Put(<< >>, "io_regs", 6, n \div ScanlineCycles)
    /\ rom = load_rom([id |-> "test", len |-> 12])
    /\ lazy = {"dummy_unmapped"}
    /\ key_state = 65535
    /\ warnings = << >>
    /\ cpu = "ARM7TDMI"
    /\ R = [CpuConstructed.R EXCEPT ![15] = IntVal(4 * n)]
    /\ R_banked = CpuConstructed.R_banked
    /\ CPSR = CpuConstructed.CPSR
    /\ pc = "absent"
    /\ last = Call("loop_pass", 4 * (n - 1), 4, << >>, <<1>>, "none")
    /\ prev = "loop_pass"
    /\ nops = 0
    /\ current_scanline = n \div ScanlineCycles
    /\ cycles_scanline = n % ScanlineCycles
    /\ frame_buffer = [i \in FbProbe |-> <<17, 17, 17>>]
    /\ keys = {}
    /\ adds = 0
    /\ since = -1
    /\ rendered = [now |-> -1, before |-> SCREEN_HEIGHT - 1]
    /\ fb_len = SCREEN_WIDTH * SCREEN_HEIGHT
    /\ cpu_cycles = n
    /\ executed_cycles_total = n
    /\ memory_len = FLAT_SIZE

\* the loop taken up LoopResume passes after its start
InitLoopLate == LoopStateAt(LoopResume)

SpecLoopLate == InitLoopLate /\ [][NextLoop]_vars

\* a step of the loop can be taken: the value of ENABLED <<NextLoop>>_vars,
\* since a pass or the return changes last and both are barred only once
\* the call has returned
LoopRunning == last.op # "emulation_loop"

\* the loop is one sequential call, so a pass or the return that can be
\* taken is taken: WF_vars(NextLoop), written out with LoopRunning for the
\* ENABLED it contains
SpecLoopLateFair ==
    SpecLoopLate /\ ([]<>(~LoopRunning) \/ []<><<NextLoop>>_vars)

\* the run from the start of the loop passes through the state the late
\* runs start from
LoopResumeReached ==
    /\ executed_cycles_total = LoopResume => LoopStateAt(LoopResume)
    /\ executed_cycles_total = LoopResume + 1 => LoopStateAt(LoopResume + 1)

\* the safety part of the claim on the run from the start of the loop
LoopPassLaw ==
    /\ [][ last'.op = "loop_pass"
             => /\ cpu_cycles' = cpu_cycles + 1
                /\ last'.ret = <<1>>
                /\ cycles_scanline' = (cycles_scanline + 1) % ScanlineCycles
                /\ executed_cycles_total' = executed_cycles_total + 1
                /\ executed_cycles_total' <= CYCLES_PER_FRAME ]_vars
    /\ [][ last'.op = "emulation_loop"
             => /\ executed_cycles_total' = CYCLES_PER_FRAME
                /\ cpu_cycles' = CYCLES_PER_FRAME ]_vars

\* C38: every pass of the loop raises ARM7TDMI.cycles by exactly 1, hands
\* that 1 to PPU.step and adds it to the total; the loop is left with the
\* total at CYCLES_PER_FRAME, after that many steps, and it is left.
C38_FrameLoopTerminates ==
    /\ [][ last'.op = "loop_pass"
             => /\ cpu_cycles' = cpu_cycles + 1
                /\ last'.ret = <<1>>
                /\ cycles_scanline' = (cycles_scanline + 1) % ScanlineCycles
                /\ executed_cycles_total' = executed_cycles_total + 1
                /\ executed_cycles_total' <= CYCLES_PER_FRAME ]_vars
    /\ [][ last'.op = "emulation_loop"
             => /\ executed_cycles_total' = CYCLES_PER_FRAME
                /\ cpu_cycles' = CYCLES_PER_FRAME ]_vars
    /\ <>(last.op = "emulation_loop")

\* the call has returned after CYCLES_PER_FRAME steps
C38_Witness ==
    /\ last.op = "emulation_loop"
    /\ last.ret = IntVal(CYCLES_PER_FRAME)
    /\ cpu_cycles = CYCLES_PER_FRAME
    /\ prev = "loop_pass"

(***************************************************************************)
(* The drafts with one flat memory (deepseekgbaemu.py, flamesgbav0.py):    *)
(* loading a cartridge image and the fetches that follow.                  *)
(***************************************************************************)
\* flamesgbav0.py: self.cpu.reg[15] = 0x08000000  # Entry point
ENTRY_POINT == 134217728

\* cartridge images, as the bytes of the file
DraftRoms ==
    { <<0, 0, 160, 225>>,                                   \* MOV R0, R0
      <<2, 0, 0, 234>>,                                     \* B +8
      <<255, 255, 255, 255>>,
      <<0, 0, 0, 0>>,
      <<254, 255, 255, 234>>,                               \* B to itself
      <<1, 0, 128, 226, 0, 0, 160, 225>>,                   \* ADD; MOV
      <<46, 0, 0, 234, 36, 255, 174, 81>>,                  \* B; first logo word
      <<0, 0, 160, 225, 1, 0, 128, 226, 252, 255, 255, 234>> }

RECURSIVE PutBytes(_, _, _, _)
PutBytes(m, region, at, data) ==
    IF data = << >> THEN m
    ELSE PutBytes(Put(m, region, at, Head(data)), region, at + 1, Tail(data))

\* memory[0x08000000:0x08000000+len(rom_data)] = rom_data on a bytearray of
\* len bytes: the bounds of a slice are clipped to the length, so the data
\* replaces memory[lo:hi] and is appended when the bytearray is shorter than
\* the start; returns [mem, len]
FlatLoad(m, len, rom_data) ==
    LET n == Len(rom_data)
        lo == Min(ENTRY_POINT, len)
        hi == Min(ENTRY_POINT + n, len)
    IN  [mem |-> PutBytes(m, "flat", lo, rom_data),
         len |-> len - (hi - lo) + n]

\* bytes(memory[at:at+4]) of the flat memory: [bytes, short]
FlatWord(m, len, at) ==
    [bytes |-> Canon([i \in 1..4 |-> Cell(m, "flat", at + i - 1)]),
     short |-> at > len - 4]

\* the first word of an image
FirstWord(rom_data) == Canon(SubSeq(rom_data, 1, 4))

\* the two drafts as constructed: GBACPU.__init__ leaves cpsr = 0 and no pc
\* attribute, ARM7TDMI.__init__ of flamesgbav0.py cpsr = 0x1F
InitDraft ==
    /\ bus = "Flat"
    /\ window = {}
    /\ ppu = TRUE
    /\ keypad = FALSE
    /\ bios = [len |-> 0, imgs |-> << >>]
    /\ mem = << >>
    /\ rom = EmptyImage
    /\ lazy = {}
    /\ key_state = 0
    /\ warnings = << >>
    /\ cpu \in {"GBACPU", "ARM7TDMI0"}
    /\ R = [i \in 0..15 |-> << >>]
    /\ R_banked = [m \in BankedModes |-> BankZero(m)]
    /\ CPSR = IF cpu = "GBACPU" THEN << >> ELSE IntVal(31)
    /\ pc = "absent"
    /\ last = Call("init", 0, 0, << >>, << >>, "none")
    /\ prev = "none"
    /\ nops = 0
    /\ IoConstructed

\* deepseekgbaemu.py GBAEmulator.load_rom_into_memory(rom_data): the slice
\* assignment, then GBACPU.reset()
DeepseekGBAEmulator_load_rom_into_memory_step ==
    /\ cpu = "GBACPU"
    /\ nops < MaxExecSteps
    /\ \E rom_data \in DraftRoms :
          /\ mem' = FlatLoad(mem, memory_len, rom_data).mem
          /\ memory_len' = FlatLoad(mem, memory_len, rom_data).len
          /\ last' = Call("load_rom", ENTRY_POINT, Len(rom_data), FirstWord(rom_data),
                          << >>, "none")
    /\ R' = GBACPU_reset.R
    /\ CPSR' = GBACPU_reset.CPSR
    /\ pc' = GBACPU_reset.pc
    /\ nops' = nops + 1
    /\ prev' = last.op
    /\ UNCHANGED <<bus, window, bios, rom, lazy, ppu, keypad, key_state, warnings,
                   cpu, R_banked, ppuVars, keys, adds, since, obsVars,
                   executed_cycles_total>>

\* deepseekgbaemu.py GBAEmulator.execute_instruction(): the fetch at
\* registers[15]; struct.unpack raises struct.error on fewer than 4 bytes,
\* before registers[15] += 4
DeepseekGBAEmulator_execute_instruction_step ==
    /\ cpu = "GBACPU"
    /\ nops < MaxExecSteps
    /\ LET pc0 == R[15]
           inside == Len(pc0) <= 3 \/ (Len(pc0) = 4 /\ pc0[4] < 128)
           w == IF inside THEN FlatWord(mem, memory_len, ToInt(pc0))
                ELSE [bytes |-> << >>, short |-> TRUE]
       IN  IF w.short
           THEN /\ R' = R
                /\ last' = Call("execute_instruction", pc0, 4, << >>, << >>,
                                "struct.error")
           ELSE /\ R' = [R EXCEPT ![15] = AddSmall(pc0, 4)]
                /\ last' = Call("execute_instruction", pc0, 4, w.bytes, << >>, "none")
    /\ nops' = nops + 1
    /\ prev' = last.op
    /\ UNCHANGED <<busVars, cpu, R_banked, CPSR, pc, ioVars>>

\* flamesgbav0.py GBAEmulator.load_rom() with a file chosen: the slice
\* assignment and reg[15] = 0x08000000; the frames start_emulation schedules
\* are the calls of execute that follow
GBAEmulator0_load_rom_step ==
    /\ cpu = "ARM7TDMI0"
    /\ nops < MaxExecSteps
    /\ \E rom_data \in DraftRoms :
          /\ mem' = FlatLoad(mem, memory_len, rom_data).mem
          /\ memory_len' = FlatLoad(mem, memory_len, rom_data).len
          /\ last' = Call("load_rom", ENTRY_POINT, Len(rom_data), FirstWord(rom_data),
                          << >>, "none")
    /\ R' = [R EXCEPT ![15] = IntVal(ENTRY_POINT)]
    /\ nops' = nops + 1
    /\ prev' = last.op
    /\ UNCHANGED <<bus, window, bios, rom, lazy, ppu, keypad, key_state, warnings,
                   cpu, R_banked, CPSR, pc, ppuVars, keys, adds, since, obsVars,
                   executed_cycles_total>>

NextDraft ==
    \/ DeepseekGBAEmulator_load_rom_into_memory_step
    \/ DeepseekGBAEmulator_execute_instruction_step
    \/ GBAEmulator0_load_rom_step
    \/ ARM7TDMI0_execute_step

SpecDraft == InitDraft /\ [][NextDraft]_vars

\* C39: in both drafts the fetch that follows the loading of a cartridge
\* image raises nothing, reads at 0x08000000 and returns the first 4 bytes of
\* the image, and the loading leaves the memory at its FLAT_SIZE bytes.
C39_FirstFetchReadsRom ==
    /\ [][ last'.op = "load_rom" => memory_len' = FLAT_SIZE ]_vars
    /\ [][ (last.op = "load_rom" /\ last'.op \in {"execute", "execute_instruction"})
             => /\ last'.exc = "none"
                /\ R[15] = IntVal(ENTRY_POINT)
                /\ last'.val = last.val
                /\ memory_len' = FLAT_SIZE ]_vars

====
